---------------------------- MODULE Spec2Model ----------------------------
(***************************************************************************)
(* A model of the consensus merger (src/ai_decision.py, merge_decisions)   *)
(* and of the order execution engine (src/trading_executor.py).            *)
(*                                                                         *)
(* Python dicts are functions whose DOMAIN is the set of keys present, so  *)
(* that dict.get(key, default) and a KeyError on dict[key] are modelled by *)
(* what they do.  A float is the double it is, written [n, d] or [n, d, h].*)
(***************************************************************************)
EXTENDS Integers, Sequences, FiniteSets, TLC

VARIABLES
    all_decisions,   \* merge_decisions: its argument (the trade dicts are shared and get tagged)
    n_ai_models,     \* len(self.ai_models), the number of configured sources
    final_trades,    \* merge_decisions: the list it returned
    mpc              \* "call" before merge_decisions ran, "done" after it returned

mvars == <<all_decisions, n_ai_models, final_trades, mpc>>

VARIABLES
    active_positions,     \* self.active_positions: symbol -> position
    symbol_info_cache,    \* self._symbol_info_cache: symbol -> exchange rules
    results,              \* execute_trades: the summary it builds
    last_trade,           \* execute_trades: the loop variable trade, the decision handled last
    todo,                 \* execute_trades: how many decisions of the list are still to come
    epc,                  \* execute_trades: "loop", "returned", or "raised" (an exception escaped)
    handled,              \* the decisions taken from the list so far, as (symbol, action)
    stop_orders,          \* the exchange: the protective orders that are open
    next_order_id,        \* the exchange: the id its next order gets
    has_credentials,      \* self.api_key and self.api_secret are both set
    calls                 \* the HTTP requests made for the decision handled last

evars == <<active_positions, symbol_info_cache, results, last_trade, todo, epc, handled,
           stop_orders, next_order_id, has_credentials, calls>>

VARIABLES
    request,   \* _send_signed_request: its arguments, the credentials, what the attempts meet
    reply,     \* _send_signed_request: the value it returned and the HTTP requests it sent
    rpc,       \* "call" before _send_signed_request ran, "done" after it returned
    wire       \* _send_signed_request: the caller's dict after the call, the parameters sent

rvars == <<request, reply, rpc, wire>>

vars == <<mvars, evars, rvars>>

(***************************************************************************)
(* Bounds of the model.                                                    *)
(***************************************************************************)
MaxSources == 2
MaxProposals == 3
MaxTrades == 2

\* the most requests for exchange rules one run of lookups sends
MaxLookups == 3

\* the largest raw quantity given to _normalize_quantity, in tenths
MaxQtyTenths == 40

(***************************************************************************)
(* Python values.                                                          *)
(***************************************************************************)
\* F(v) with v computed before F is entered (an assignment followed by its use)
With(v, F(_)) == CHOOSE r \in {F(x) : x \in {v}} : TRUE

\* dict.get(key, default)
Get(d, k, default) == IF k \in DOMAIN d THEN d[k] ELSE default

\* d[k] = v on a dict (the key is added when absent)
Put(d, k, v) == [x \in DOMAIN d \cup {k} |-> IF x = k THEN v ELSE d[x]]

\* the dict without key k
Without(d, k) == [x \in DOMAIN d \ {k} |-> d[x]]

RECURSIVE GCD(_, _)
GCD(a, b) == IF b = 0 THEN a ELSE GCD(b, a % b)

Abs(x) == IF x < 0 THEN -x ELSE x

\* the number n/d (d # 0), in lowest terms with a positive denominator
Rat(n, d) ==
    LET g == GCD(Abs(n), Abs(d))
        s == IF d < 0 THEN -1 ELSE 1
    IN  [n |-> (s * n) \div g, d |-> (s * d) \div g]

\* the arithmetic of rationals; common factors are taken out before the products
RAdd(a, b) ==
    LET g == GCD(a.d, b.d)
    IN  Rat(a.n * (b.d \div g) + b.n * (a.d \div g), (a.d \div g) * b.d)

RSub(a, b) == RAdd(a, [n |-> -b.n, d |-> b.d])

RMul(a, b) ==
    LET g1 == GCD(Abs(a.n), b.d)
        g2 == GCD(Abs(b.n), a.d)
    IN  Rat((a.n \div g1) * (b.n \div g2), (a.d \div g2) * (b.d \div g1))

RDiv(a, b) == RMul(a, Rat(b.d, b.n))

RDivInt(a, k) == RMul(a, Rat(1, k))

RLess(a, b) ==
    LET g == GCD(a.d, b.d)
    IN  a.n * (b.d \div g) < b.n * (a.d \div g)

RLeq(a, b) == ~RLess(b, a)
R(k) == Rat(k, 1)
Zero == R(0)

\* math.floor and math.ceil of a rational, as integers
Floor(a) == a.n \div a.d
Ceil(a) == -((-a.n) \div a.d)

RECURSIVE Pow10(_)
Pow10(k) == IF k = 0 THEN 1 ELSE 10 * Pow10(k - 1)

\* a value that is a str where a number is expected
NotANumber == [str |-> "abc"]
IsNumber(v) == "n" \in DOMAIN v

\* A Python float is an IEEE-754 double.  A number [n, d] of the model stands for the
\* double nearest to n/d, which is what float() of a decimal string and a literal give.
\* A number [n, d, h] stands for another double near n/d, which the arithmetic can give
\* (3 * 0.1 is 0.30000000000000004): the double n/d + (h/d) * 2^(e - 53), where e is the
\* binary exponent of n/d, so that h/d counts halves of the gap between two doubles.
\* The arithmetic below is exact, so that floor, ceil, comparison and formatting decide
\* as they do on the doubles (0.3 / 0.1 is 2.9999999999999996; 0.35 is formatted to one
\* decimal as 0.3); it is defined as far as the integers of the model reach.

\* the decimal value of a number
Decimal(v) == [n |-> v.n, d |-> v.d]

Sign(k) == IF k > 0 THEN 1 ELSE IF k < 0 THEN -1 ELSE 0

\* the binary exponent of n/d > 0: n/d is in [2^e, 2^(e + 1))
RECURSIVE Log2Of(_, _)
Log2Of(n, d) ==
    IF n < d THEN Log2Of(2 * n, d) - 1
    ELSE IF n < 2 * d THEN 0 ELSE Log2Of(n, 2 * d) + 1

Log2(x) == Log2Of(x.n, x.d)

\* (n * 2^t) % m
RECURSIVE TimesPow2Mod(_, _, _)
TimesPow2Mod(n, t, m) ==
    IF t = 0 THEN n % m
    ELSE IF t >= 6 THEN TimesPow2Mod((64 * (n % m)) % m, t - 6, m)
    ELSE ((2 ^ t) * (n % m)) % m

\* x * 2^(52 - e) is M + r/x.d with M the 53-bit integer below it: r, and M % 2
MantissaRest(x) == TimesPow2Mod(x.n, 52 - Log2(x), x.d)
MantissaParity(x) == (TimesPow2Mod(x.n, 52 - Log2(x), 2 * x.d) - MantissaRest(x)) \div x.d

\* h of the double nearest to x > 0 (an integer is a double)
NearestH(x) ==
    IF x.d = 1 THEN 0
    ELSE With(MantissaRest(x), LAMBDA r :
         IF 2 * r < x.d THEN -2 * r
         ELSE IF 2 * r > x.d THEN 2 * (x.d - r)
         ELSE IF MantissaParity(x) = 0 THEN -2 * r ELSE 2 * (x.d - r))

\* h of a number
H(v) ==
    IF "h" \in DOMAIN v THEN v.h
    ELSE IF v.n = 0 THEN 0
    ELSE IF v.n > 0 THEN NearestH(v) ELSE -NearestH([n |-> -v.n, d |-> v.d])

\* the number that stands for the double of decimal value x > 0 and of that h
Double(x, h) == IF h = NearestH(x) THEN x ELSE [n |-> x.n, d |-> x.d, h |-> h]

\* the integer nearest to u + e for an e far smaller than any distance between the
\* values of u, of the sign sigma; an exact tie goes to the one that makes the sum
\* with parity even (the even mantissa)
NearestInteger(u, sigma, parity) ==
    With(Floor(u), LAMBDA lo :
    With(2 * (u.n - lo * u.d), LAMBDA twice :
    IF twice > u.d THEN lo + 1
    ELSE IF twice < u.d THEN lo
    ELSE IF sigma > 0 THEN lo + 1
    ELSE IF sigma < 0 THEN lo
    ELSE IF (lo + parity) % 2 = 0 THEN lo ELSE lo + 1))

\* 2^k
Pow2(k) == IF k >= 0 THEN [n |-> 2 ^ k, d |-> 1] ELSE [n |-> 1, d |-> 2 ^ (-k)]

\* round-to-nearest-even of the real y + t * 2^(e - 53) + e2, for y > 0 and e2 as above:
\* h of the double.  The doubles around y are two halves apart from the one at
\* M * 2^(e - 52), and one half apart below y when y is a power of two.
RoundedH(y, t, sigma) ==
    With(<<y, t>>, LAMBDA p :
    With(MantissaRest(p[1]), LAMBDA r :
    IF r = 0 /\ p[2].n < 0 /\ p[1] = Pow2(Log2(p[1]))
    THEN NearestInteger(p[2], sigma, 0) * p[1].d
    ELSE 2 * NearestInteger(RAdd(Rat(r, p[1].d), RDivInt(p[2], 2)), sigma,
                            MantissaParity(p[1])) * p[1].d
         - 2 * r))

\* x * 2^e, in two steps for a large e to keep the powers small
Scale2(x, e) ==
    IF x.n = 0 \/ e = 0 THEN x
    ELSE IF -30 <= e /\ e <= 30 THEN RMul(x, Pow2(e))
    ELSE RMul(RMul(x, Pow2(e \div 2)), Pow2(e - e \div 2))

\* the distance of the double v > 0 from its decimal value, as a fraction of 2^(e - 53)
\* for the binary exponent e of v
Distance(v) == Rat(H(v), v.d)

\* a * b on floats, for a > 0 and b > 0: with x the decimal values and c the distances,
\* (x1 + c1)(x2 + c2) = x1 x2 + (x1 c2 + x2 c1) + c1 c2
\* and the middle term, counted in halves of the gap at y = x1 x2, is t below
MulOfPositive(a, b) ==
    With(<<RMul(Decimal(a), Decimal(b)), Distance(a), Distance(b)>>, LAMBDA p :
    With(<<Log2(a) - Log2(p[1]), Log2(b) - Log2(p[1])>>, LAMBDA e :
    With(RAdd(Scale2(RMul(Decimal(a), p[3]), e[2]), Scale2(RMul(Decimal(b), p[2]), e[1])),
         LAMBDA t :
    Double(p[1], RoundedH(p[1], t, Sign(p[2].n) * Sign(p[3].n))))))

\* a / b on floats, for a > 0 and b > 0:
\* (x1 + c1) / (x2 + c2) = x1/x2 + (c1 - y c2) / x2 - c2 (c1 - y c2) / x2^2 + ...
DivOfPositive(a, b) ==
    With(<<RDiv(Decimal(a), Decimal(b)), Distance(a), Distance(b)>>, LAMBDA p :
    With(<<Log2(a) - Log2(p[1]), Log2(b) - Log2(p[1])>>, LAMBDA e :
    With(RSub(Scale2(RDiv(p[2], Decimal(b)), e[1]),
              Scale2(RDiv(RMul(p[1], p[3]), Decimal(b)), e[2])), LAMBDA t :
    Double(p[1], RoundedH(p[1], t, -(Sign(p[3].n) * Sign(t.n)))))))

\* -v
Negated(v) ==
    IF "h" \in DOMAIN v THEN [n |-> -v.n, d |-> v.d, h |-> -v.h] ELSE [n |-> -v.n, d |-> v.d]

Magnitude(v) == IF v.n < 0 THEN Negated(v) ELSE v

\* a * b and a / b (b # 0) on floats
FMul(a, b) ==
    With(<<a, b>>, LAMBDA p :
    IF p[1].n = 0 \/ p[2].n = 0 THEN Zero
    ELSE IF Sign(p[1].n) = Sign(p[2].n)
         THEN MulOfPositive(Magnitude(p[1]), Magnitude(p[2]))
         ELSE Negated(MulOfPositive(Magnitude(p[1]), Magnitude(p[2]))))

FDiv(a, b) ==
    With(<<a, b>>, LAMBDA p :
    IF p[1].n = 0 THEN Zero
    \* by 2^k, k >= 0: the quotient of the doubles is a double (nothing is rounded)
    ELSE IF p[2].d = 1 /\ p[2].n > 0 /\ p[2] = Pow2(Log2(p[2]))
         THEN With(RDiv(Decimal(p[1]), p[2]), LAMBDA y :
              IF "h" \in DOMAIN p[1]
              THEN [n |-> y.n, d |-> y.d, h |-> p[1].h * (y.d \div p[1].d)] ELSE y)
    ELSE IF Sign(p[1].n) = Sign(p[2].n)
         THEN DivOfPositive(Magnitude(p[1]), Magnitude(p[2]))
         ELSE Negated(DivOfPositive(Magnitude(p[1]), Magnitude(p[2]))))

\* a + b on floats, for a > 0 and b > 0: the sum of the two doubles is exact before it
\* is rounded, (x1 + c1) + (x2 + c2) = (x1 + x2) + (c1 + c2)
AddOfPositive(a, b) ==
    With(<<RAdd(Decimal(a), Decimal(b)), Distance(a), Distance(b)>>, LAMBDA p :
    With(<<Log2(a) - Log2(p[1]), Log2(b) - Log2(p[1])>>, LAMBDA e :
    Double(p[1], RoundedH(p[1], RAdd(Scale2(p[2], e[1]), Scale2(p[3], e[2])), 0))))

\* a + b on floats of one sign (0 + b is b: sum() starts from the int 0)
FAdd(a, b) ==
    With(<<a, b>>, LAMBDA p :
    IF p[1].n = 0 THEN p[2]
    ELSE IF p[2].n = 0 THEN p[1]
    ELSE IF p[1].n > 0 THEN AddOfPositive(p[1], p[2])
    ELSE Negated(AddOfPositive(Negated(p[1]), Negated(p[2]))))

\* a < b on floats
FLess(a, b) ==
    With(<<a, b>>, LAMBDA p :
    \/ RLess(Decimal(p[1]), Decimal(p[2]))
    \/ Decimal(p[1]) = Decimal(p[2]) /\ H(p[1]) < H(p[2]))

\* math.floor and math.ceil of a float, as integers
FFloor(a) ==
    With(a, LAMBDA v : IF v.d = 1 /\ H(v) < 0 THEN v.n - 1 ELSE Floor(Decimal(v)))
FCeil(a) ==
    With(a, LAMBDA v : IF v.d = 1 /\ H(v) > 0 THEN v.n + 1 ELSE Ceil(Decimal(v)))

\* max(a, b) on floats
FMax(a, b) == IF FLess(a, b) THEN b ELSE a

\* the spellings the model writes its words in (lower case, capitalised, upper case,
\* some mixed); the empty string is the default of a missing field
UpperOf ==
    [s \in {"open", "Open", "OPEN", "oPEN"} |-> "OPEN"] @@
    [s \in {"close", "Close", "CLOSE"} |-> "CLOSE"] @@
    [s \in {"hold", "Hold", "HOLD"} |-> "HOLD"] @@
    [s \in {"buy", "Buy", "BUY"} |-> "BUY"] @@
    [s \in {"sell", "Sell", "SELL"} |-> "SELL"] @@
    [s \in {"bp", "Bp", "BP"} |-> "BP"] @@
    [s \in {"sp", "Sp", "SP"} |-> "SP"] @@
    [s \in {"breakout_long", "Breakout_long", "BREAKOUT_LONG", "Breakout_Long"} |-> "BREAKOUT_LONG"] @@
    [s \in {"breakout_short", "Breakout_short", "BREAKOUT_SHORT", "Breakout_Short"} |-> "BREAKOUT_SHORT"] @@
    [s \in {"unknown", "Unknown", "UNKNOWN"} |-> "UNKNOWN"] @@
    [s \in {"long", "Long", "LONG"} |-> "LONG"] @@
    [s \in {"short", "Short", "SHORT"} |-> "SHORT"] @@
    [s \in {"btcusdt", "Btcusdt", "BTCUSDT", "BtcUsdt", "btcUSDT"} |-> "BTCUSDT"] @@
    [s \in {"ethusdt", "Ethusdt", "ETHUSDT", "EthUsdt"} |-> "ETHUSDT"] @@
    [s \in {"market", "Market", "MARKET"} |-> "MARKET"] @@
    [s \in {"limit", "Limit", "LIMIT"} |-> "LIMIT"] @@
    [s \in {""} |-> ""]

\* str.upper(), for the spellings above; a string outside them has no value here
Upper(s) == UpperOf[s]

(***************************************************************************)
(* AIDecision.normalize_trade_action and AIDecision.merge_decisions.       *)
(***************************************************************************)
normalize_trade_action(trade) ==
    LET action == Upper(Get(trade, "action", ""))
        symbol == Upper(Get(trade, "symbol", ""))
        direction == IF action # "HOLD" THEN Upper(Get(trade, "direction", "")) ELSE ""
    IN  <<action, symbol, direction>>

\* lines 300-306: every trade of every decision, tagged with its source, in order
TagTrades(decision) ==
    LET trades == Get(decision, "trades", <<>>)
        ai_name == Get(decision, "ai_name", "Unknown")
    IN  [j \in 1..Len(trades) |-> Put(trades[j], "from_ai", ai_name)]

RECURSIVE AllTrades(_)
AllTrades(decisions) ==
    IF decisions = <<>> THEN <<>>
    ELSE TagTrades(Head(decisions)) \o AllTrades(Tail(decisions))

\* the decisions after the loop of lines 301-306 has tagged their (shared) trade dicts
TaggedDecisions(decisions) ==
    [i \in 1..Len(decisions) |->
        IF "trades" \in DOMAIN decisions[i]
        THEN [decisions[i] EXCEPT !["trades"] = TagTrades(decisions[i])]
        ELSE decisions[i]]

GroupKey(trade) == Upper(Get(trade, "symbol", ""))

\* lines 309-314: the keys of trades_by_symbol, in insertion order
RECURSIVE SymbolOrder(_, _)
SymbolOrder(trades, seen) ==
    IF trades = <<>> THEN <<>>
    ELSE LET k == GroupKey(Head(trades))
         IN  IF k \in seen THEN SymbolOrder(Tail(trades), seen)
             ELSE <<k>> \o SymbolOrder(Tail(trades), seen \cup {k})

TradesOfSymbol(trades, symbol) ==
    LET InGroup(t) == GroupKey(t) = symbol
    IN  SelectSeq(trades, InGroup)

\* line 336, sum(confidences): 0 + c1 + c2 + ..., each addition rounded
RECURSIVE SumConfidence(_)
SumConfidence(trades) ==
    IF trades = <<>> THEN Zero
    ELSE With(SumConfidence(SubSeq(trades, 1, Len(trades) - 1)), LAMBDA sum :
         FAdd(sum, Get(trades[Len(trades)], "confidence", Rat(1, 2))))

\* lines 332-342: the decision emitted for a unanimous group
ConsensusTrade(trades, total_ais) ==
    LET first_trade == trades[1]
    IN  With(FDiv(SumConfidence(trades), R(Len(trades))), LAMBDA mean :
        Put(Put(Put(first_trade, "confidence", mean), "ai_consensus", Len(trades)),
            "total_ais", total_ais))

\* mutant of Unanimous: the direction is left out of the comparison
UnanimousOnAction(trades) ==
    Cardinality({normalize_trade_action(trades[j])[1] : j \in 1..Len(trades)}) = 1

\* line 326
Unanimous(trades) ==
    Cardinality({normalize_trade_action(trades[j]) : j \in 1..Len(trades)}) = 1

RECURSIVE MergeGroups(_, _, _)
MergeGroups(symbols, trades, total_ais) ==
    IF symbols = <<>> THEN <<>>
    ELSE LET group == TradesOfSymbol(trades, Head(symbols))
             rest == MergeGroups(Tail(symbols), trades, total_ais)
         IN  IF Unanimous(group) THEN <<ConsensusTrade(group, total_ais)>> \o rest
             ELSE rest

\* mutant of merge_decisions: a single source is merged like several
merge_decisions_always_grouped(decisions, total_ais) ==
    IF decisions = <<>> THEN <<>>
    ELSE LET all_trades == AllTrades(decisions)
         IN  MergeGroups(SymbolOrder(all_trades, {}), all_trades, total_ais)

\* the value merge_decisions returns
merge_decisions(decisions, total_ais) ==
    IF decisions = <<>> THEN <<>>
    ELSE IF Len(decisions) = 1 THEN Get(decisions[1], "trades", <<>>)
    ELSE LET all_trades == AllTrades(decisions)
         IN  MergeGroups(SymbolOrder(all_trades, {}), all_trades, total_ais)

\* the argument after the call: untouched on the two early returns, tagged otherwise
DecisionsAfterMerge(decisions) ==
    IF Len(decisions) <= 1 THEN decisions ELSE TaggedDecisions(decisions)

(***************************************************************************)
(* The proposals the sources may return.                                   *)
(***************************************************************************)
Proposal(action, symbol, direction, confidence, leverage) ==
    [action |-> action, symbol |-> symbol, direction |-> direction,
     confidence |-> confidence, leverage |-> leverage]

ProposalPool ==
    {Proposal("OPEN", "BTCUSDT", d, Rat(4, 5), 2) : d \in {"LONG", "SHORT"}}
    \cup {Proposal("open", "btcusdt", "long", Rat(2, 5), 3)}
    \cup {Proposal("HOLD", "BTCUSDT", "LONG", Rat(3, 5), 1)}
    \cup {Proposal("Hold", "BtcUsdt", "Short", Rat(3, 5), 1)}
    \cup {Proposal("CLOSE", "ETHUSDT", "LONG", Rat(4, 5), 1)}
    \cup {Without(Proposal("CLOSE", "ETHUSDT", "LONG", Rat(4, 5), 1), "confidence")}
    \cup {Without(Proposal("OPEN", "BTCUSDT", "LONG", Rat(3, 5), 2), "symbol")}

AINames == <<"AI1", "AI2", "AI3", "AI4">>

\* the execution engine as constructed, with no execute_trades call in progress
\* no signed request is being followed on its own
RequestIdle ==
    /\ request = <<>>
    /\ reply = <<>>
    /\ rpc = "idle"
    /\ wire = <<>>

EngineIdle ==
    /\ active_positions = <<>>
    /\ symbol_info_cache = <<>>
    /\ results = <<>>
    /\ last_trade = <<>>
    /\ todo = 0
    /\ epc = "returned"
    /\ handled = <<>>
    /\ stop_orders = {}
    /\ next_order_id = 1
    /\ has_credentials = TRUE
    /\ calls = <<>>

\* the members of a set of integers in ascending order
RECURSIVE Ascending(_)
Ascending(S) ==
    IF S = {} THEN <<>>
    ELSE LET least == CHOOSE x \in S : \A y \in S : x <= y
         IN  <<least>> \o Ascending(S \ {least})

\* lines 240-258: the decisions of the configured sources that answered, in the order
\* of self.ai_models, each named after its source; answering lists the indexes of
\* those sources, proposal j of flat belongs to the owner[j]-th of them; a source
\* without proposals has an empty list, or (when it is in bare) no 'trades' key at all
SourceDecisions(answering, flat, owner, bare) ==
    [i \in 1..Len(answering) |->
        LET OfSource(j) == owner[j] = i
            mine == SelectSeq([j \in 1..Len(flat) |-> j], OfSource)
            trades == [k \in 1..Len(mine) |-> flat[mine[k]]]
            ai_name == AINames[answering[i]]
        IN  IF i \in bare THEN [ai_name |-> ai_name]
            ELSE [ai_name |-> ai_name, trades |-> trades]]

InitMerge ==
    /\ \E configured \in 0..MaxSources, p \in 0..MaxProposals :
         \E answered \in SUBSET (1..configured) :
         \E flat \in [1..p -> ProposalPool], owner \in [1..p -> 1..Cardinality(answered)] :
         \E bare \in SUBSET {i \in 1..Cardinality(answered) : \A j \in 1..p : owner[j] # i} :
            /\ \A j \in 1..(p - 1) : owner[j] <= owner[j + 1]
            /\ all_decisions = SourceDecisions(Ascending(answered), flat, owner, bare)
            /\ n_ai_models = configured
    /\ final_trades = <<>>
    /\ mpc = "call"
    /\ EngineIdle
    /\ RequestIdle

\* final_trades = self.merge_decisions(all_decisions)
Merge ==
    /\ mpc = "call"
    /\ final_trades' = merge_decisions(all_decisions, n_ai_models)
    /\ all_decisions' = DecisionsAfterMerge(all_decisions)
    /\ mpc' = "done"
    /\ UNCHANGED <<n_ai_models, evars, rvars>>

NextMerge == Merge

SpecMerge == InitMerge /\ [][NextMerge]_vars


(***************************************************************************)
(* Properties of merge_decisions.                                          *)
(***************************************************************************)
TradesOf(decision) == Get(decision, "trades", <<>>)

\* the places <<source, index>> of the proposals in all_decisions
Places ==
    UNION {{<<i, j>> : j \in 1..Len(TradesOf(all_decisions[i]))} : i \in 1..Len(all_decisions)}

ProposalAt(p) == TradesOf(all_decisions[p[1]])[p[2]]

Instruments == {GroupKey(ProposalAt(p)) : p \in Places}

PlacesOf(S) == {p \in Places : GroupKey(ProposalAt(p)) = S}

SourcesOf(S) == {p[1] : p \in PlacesOf(S)}

TriplesOf(S) == {normalize_trade_action(ProposalAt(p)) : p \in PlacesOf(S)}

Precedes(p, q) == p[1] < q[1] \/ (p[1] = q[1] /\ p[2] < q[2])

FirstPlaceOf(S) == CHOOSE p \in PlacesOf(S) : \A q \in PlacesOf(S) \ {p} : Precedes(p, q)

\* the arithmetic mean of the confidences of the proposals for S (0.5 for a proposal
\* that has none), as a number: the double nearest to it
RECURSIVE SumOver(_)
SumOver(P) ==
    IF P = {} THEN Rat(0, 1)
    ELSE LET p == CHOOSE q \in P : TRUE
         IN  RAdd(Get(ProposalAt(p), "confidence", Rat(1, 2)), SumOver(P \ {p}))

MeanConfidenceOf(S) == RDivInt(SumOver(PlacesOf(S)), Cardinality(PlacesOf(S)))

\* the places in final_trades of the decisions for instrument S
EmittedFor(S) == {k \in 1..Len(final_trades) : GroupKey(final_trades[k]) = S}

MergedFields == {"confidence", "ai_consensus", "total_ais"}

\* C1 as stated: for any list of source decisions and any instrument S, the output
\* holds a decision for S if and only if every proposal for S has the same
\* normalized (action, symbol, direction) triple.
C1_UnanimityForAnyInput ==
    mpc = "done" =>
        \A S \in Instruments : (EmittedFor(S) # {}) <=> (Cardinality(TriplesOf(S)) = 1)

\* C1 amended: for a list of two or more source decisions and any instrument S, the
\* output holds a decision for S if and only if every proposal for S has the same
\* normalized triple, and then it holds exactly one.
C1_UnanimityOfSeveralSources ==
    (mpc = "done" /\ Len(all_decisions) >= 2) =>
        /\ \A S \in Instruments :
              /\ (EmittedFor(S) # {}) <=> (Cardinality(TriplesOf(S)) = 1)
              /\ Cardinality(EmittedFor(S)) <= 1
        /\ {GroupKey(final_trades[k]) : k \in 1..Len(final_trades)} \subseteq Instruments

\* two sources agree on one instrument in different letter case and it is emitted,
\* while the proposals for another instrument are emitted as well
C1_Witness ==
    /\ mpc = "done"
    /\ Len(all_decisions) >= 2
    /\ \E S \in Instruments :
          /\ Cardinality(SourcesOf(S)) >= 2
          /\ Cardinality({Get(ProposalAt(p), "action", "") : p \in PlacesOf(S)}) >= 2
          /\ EmittedFor(S) # {}
    /\ Len(final_trades) >= 2

\* C2: with exactly one source, merge_decisions returns that source's trade list as
\* it is (same trades, order and confidences, no field added) and leaves it untouched.
C2_SingleSourcePassthrough ==
    [][(Len(all_decisions) = 1 /\ Merge) =>
          /\ final_trades' = TradesOf(all_decisions[1])
          /\ all_decisions' = all_decisions]_vars

\* one source listed the same instrument twice with different triples, and both
\* proposals came out
C2_Witness ==
    /\ mpc = "done"
    /\ Len(all_decisions) = 1
    /\ Len(final_trades) >= 2
    /\ \E S \in Instruments : Cardinality(TriplesOf(S)) >= 2

\* C3: every decision emitted from two or more sources has the fields of the first
\* proposal of its instrument's group, but for confidence, which is the arithmetic
\* mean of the group's confidences (0.5 for a proposal that has none, line 335);
\* ai_consensus is the size of the group and total_ais the number of configured
\* sources.  The code's confidence is the float sum divided by the size, which is
\* not always the double of the mean (0.8 and 0.4 give 0.6000000000000001).
C3_ConsensusFields ==
    (mpc = "done" /\ Len(all_decisions) >= 2) =>
        \A k \in 1..Len(final_trades) :
            LET d == final_trades[k]
                S == GroupKey(d)
                first == ProposalAt(FirstPlaceOf(S))
            IN  /\ DOMAIN d = DOMAIN first \cup MergedFields
                /\ \A f \in DOMAIN first \ MergedFields : d[f] = first[f]
                /\ d["confidence"] = MeanConfidenceOf(S)
                /\ d["ai_consensus"] = Cardinality(PlacesOf(S))
                /\ d["total_ais"] = n_ai_models

\* C4: with two or more sources, an instrument that only one source lists always
\* yields a decision, with agreement count 1.
C4_SoleSourceCountsOne ==
    (mpc = "done" /\ Len(all_decisions) >= 2) =>
        \A S \in Instruments :
            Cardinality(SourcesOf(S)) = 1 =>
                \E k \in EmittedFor(S) : final_trades[k]["ai_consensus"] = 1


(***************************************************************************)
(* TradingExecutor: the exchange's answers.                                *)
(***************************************************************************)
\* a decoded JSON body is a dict or a list; None is Python's None
None == [type |-> "none"]
DictBody(body) == [type |-> "dict", body |-> body]
ListBody(items) == [type |-> "list", items |-> items]

\* the error values _send_signed_request builds itself (lines 192, 233, 244, 248)
\* by their code and msg; the human-readable "error" text is left out
MissingCredentials == DictBody([code |-> -1, msg |-> "MISSING_API_CREDENTIALS"])
RequestTimeout == DictBody([code |-> -1, msg |-> "REQUEST_TIMEOUT"])
NetworkError == DictBody([code |-> -1, msg |-> "NETWORK_ERROR"])
UnknownError == DictBody([code |-> -1, msg |-> "UNKNOWN_ERROR"])

\* the body the exchange sends with a non-2xx status when it rejects a request
ExchangeRejection == DictBody([code |-> -2019, msg |-> "REJECTED"])

\* bool(resp) for a decoded body
Truthy(resp) ==
    CASE resp.type = "none" -> FALSE
      [] resp.type = "dict" -> DOMAIN resp.body # {}
      [] resp.type = "list" -> resp.items # <<>>

_is_error_response(resp) ==
    /\ resp.type = "dict"
    /\ "code" \in DOMAIN resp.body
    /\ resp.body["code"] # 0

\* line 296, 346, 380, 405: result and not self._is_error_response(result)
Succeeded(resp) == Truthy(resp) /\ ~_is_error_response(resp)

(***************************************************************************)
(* TradingExecutor._send_signed_request.  What each attempt meets is given *)
(* by outs, one entry per attempt:                                         *)
(*   "ok"          a 2xx answer carrying ok_body                           *)
(*   "rejected"    a 2xx answer carrying ExchangeRejection                 *)
(*   "timeout"     requests.exceptions.Timeout                             *)
(*   "conn_error"  another RequestException raised before any answer       *)
(*   "http_error"  a non-2xx answer carrying ExchangeRejection, on which   *)
(*                 raise_for_status raises HTTPError (a RequestException)  *)
(***************************************************************************)
max_retries == 3

\* r before any assignment in the loop
Unbound == [type |-> "unbound"]

RECURSIVE SignedAttempts(_, _, _, _)
SignedAttempts(outs, attempt, r, ok_body) ==
    LET out == outs[attempt + 1]
        last == ~(attempt < max_retries - 1)
        retry(r2) == SignedAttempts(outs, attempt + 1, r2, ok_body)
        done(resp) == [resp |-> resp, attempts |-> attempt + 1]
    IN  CASE out = "ok" -> done(ok_body)
          [] out = "rejected" -> done(ExchangeRejection)
          [] out = "timeout" -> IF last THEN done(RequestTimeout) ELSE retry(r)
          [] out = "conn_error" ->
                IF ~last THEN retry(r)
                ELSE IF r = Unbound THEN done(NetworkError) ELSE done(r)
          [] out = "http_error" ->
                IF last THEN done(ExchangeRejection) ELSE retry(ExchangeRejection)
          [] out = "exception" -> done(UnknownError)

\* lines 215-222: the methods the client can send
SupportedMethods == {"GET", "POST", "DELETE"}

\* _send_signed_request as it would be if line 190 looked at the API key only
_send_signed_request_key_only(method, has_key, has_secret, outs, ok_body) ==
    IF ~has_key THEN [resp |-> MissingCredentials, attempts |-> 0]
    ELSE IF method \notin SupportedMethods THEN [resp |-> UnknownError, attempts |-> 0]
    ELSE SignedAttempts(outs, 0, Unbound, ok_body)

\* _send_signed_request as it would be if the ValueError of line 222 were raised outside
\* the try of line 203
_send_signed_request_method_unchecked(method, has_key, has_secret, outs, ok_body) ==
    IF ~has_key \/ ~has_secret THEN [resp |-> MissingCredentials, attempts |-> 0]
    ELSE IF method \notin SupportedMethods
         THEN [resp |-> [type |-> "raised", error |-> "ValueError"], attempts |-> 0]
    ELSE SignedAttempts(outs, 0, Unbound, ok_body)

\* the value returned and the number of HTTP requests sent; has_key and has_secret
\* say whether self.api_key and self.api_secret are set (not None, not empty)
_send_signed_request(method, has_key, has_secret, outs, ok_body) ==
    IF ~has_key \/ ~has_secret THEN [resp |-> MissingCredentials, attempts |-> 0]
    ELSE IF method \notin SupportedMethods THEN [resp |-> UnknownError, attempts |-> 0]
    ELSE SignedAttempts(outs, 0, Unbound, ok_body)

\* _generate_signature: the HMAC-SHA256 of the encoded parameters under the secret,
\* a value that determines the parameters it was computed over
_generate_signature(params) == [hmac_sha256 |-> params]

default_recv_window == 5000

\* lines 195-197: the caller's dict as the call leaves it (caller), and original_params,
\* a copy of it that gets recvWindow when the caller gave none
CopyOfParams(params) ==
    [caller |-> params,
     original_params |->
        IF "recvWindow" \notin DOMAIN params
        THEN Put(params, "recvWindow", default_recv_window) ELSE params]

\* lines 205-207 as they would be if the signature were computed before the timestamp
\* is set
RequestParamsAt_signed_first(original_params, now) ==
    Put(Put(original_params, "timestamp", now), "signature",
        _generate_signature(original_params))

\* lines 205-207: request_params of an attempt at which the clock reads now
RequestParamsAt(original_params, now) ==
    LET request_params == Put(original_params, "timestamp", now)
    IN  Put(request_params, "signature", _generate_signature(request_params))

\* the parameters of the HTTP requests of one call, in order; times[i] is what the clock
\* reads at attempt i
SentParams(method, has_key, has_secret, params, times, outs) ==
    LET a == _send_signed_request(method, has_key, has_secret, outs, Unbound)
    IN  [i \in 1..a.attempts |->
            RequestParamsAt(CopyOfParams(params).original_params, times[i])]

(***************************************************************************)
(* TradingExecutor: exchange rules and normalisation.                      *)
(***************************************************************************)
\* math.floor(value / step) and math.ceil(value / step) on floats: the quotient of the
\* doubles is rounded to a double, which is on the other side of an integer than the
\* quotient of the decimal values only when that one is the integer
FloorOfQuotient(value, step) ==
    With(RDiv(Decimal(value), Decimal(step)), LAMBDA q :
    IF q.d = 1 THEN FFloor(FDiv(value, step)) ELSE Floor(q))

CeilOfQuotient(value, step) ==
    With(RDiv(Decimal(value), Decimal(step)), LAMBDA q :
    IF q.d = 1 THEN FCeil(FDiv(value, step)) ELSE Ceil(q))

\* _floor_to_step as it would be if it returned the value as it is
_floor_to_step_unfloored(value, step) == value

_floor_to_step(value, step) ==
    IF ~FLess(Zero, step) THEN value
    ELSE With(FloorOfQuotient(value, step), LAMBDA k : FMul(R(k), step))

\* float(f"{value:.{precision}f}"): the decimal of precision digits nearest to the
\* double; a double is half way between two of them only when it is its decimal value,
\* and the even one is taken then
_round_to_precision(value, precision) ==
    With(RMul(Decimal(value), R(Pow10(precision))), LAMBDA scaled :
    With(<<Floor(scaled), RSub(scaled, R(Floor(scaled)))>>, LAMBDA p :
    IF \/ RLess(Rat(1, 2), p[2])
       \/ /\ p[2] = Rat(1, 2)
          /\ With(H(value), LAMBDA h : h > 0 \/ (h = 0 /\ p[1] % 2 = 1))
    THEN Rat(p[1] + 1, Pow10(precision))
    ELSE Rat(p[1], Pow10(precision))))

\* bool(x) for a float
NonZero(x) == x # Zero

_normalize_quantity(info, qty, price, order_type) ==
    IF info = None THEN qty
    ELSE
    LET filters == Get(info, "filters_map", <<>>)
        lot_filter_name ==
            IF Upper(order_type) = "MARKET" /\ "MARKET_LOT_SIZE" \in DOMAIN filters
            THEN "MARKET_LOT_SIZE" ELSE "LOT_SIZE"
        lot == Get(filters, lot_filter_name, <<>>)
        min_qty == IF DOMAIN lot # {} THEN Get(lot, "minQty", Zero) ELSE Zero
        step_size == IF DOMAIN lot # {} THEN Get(lot, "stepSize", Zero) ELSE Zero
        min_notional_filter ==
            IF "MIN_NOTIONAL" \in DOMAIN filters /\ DOMAIN filters["MIN_NOTIONAL"] # {}
            THEN filters["MIN_NOTIONAL"]
            ELSE Get(filters, "NOTIONAL", <<>>)
        min_notional ==
            IF "notional" \in DOMAIN min_notional_filter
            THEN min_notional_filter["notional"]
            ELSE Get(min_notional_filter, "minNotional", Zero)
        \* lines 107-108
        Stepped(q) ==
            IF NonZero(step_size) /\ FLess(Zero, step_size)
            THEN _floor_to_step(q, step_size) ELSE q
        \* lines 111-112
        AtLeastMin(q) == IF NonZero(min_qty) /\ FLess(q, min_qty) THEN min_qty ELSE q
        \* lines 125-133
        Notional(q) == IF NonZero(price) THEN FMul(q, price) ELSE Zero
        Target(t) ==
            IF NonZero(step_size) /\ FLess(Zero, step_size)
            THEN With(CeilOfQuotient(t, step_size), LAMBDA k : FMul(R(k), step_size))
            ELSE t
        WorthEnough(q) ==
            With(Notional(q), LAMBDA notional :
            IF NonZero(min_notional) /\ FLess(notional, min_notional) /\ NonZero(price)
            THEN With(FDiv(min_notional, price), LAMBDA t :
                 With(Target(t), LAMBDA target_qty : FMax(q, target_qty)))
            ELSE q)
        \* lines 135-137
        Precise(q) ==
            IF "quantityPrecision" \in DOMAIN info
            THEN _round_to_precision(q, info["quantityPrecision"]) ELSE q
    IN  With(Stepped(qty), LAMBDA qty1 :
        With(AtLeastMin(qty1), LAMBDA qty2 :
        With(WorthEnough(qty2), LAMBDA qty3 : Precise(qty3))))

_normalize_price(info, price) ==
    IF info = None THEN price
    ELSE
    LET filters == Get(info, "filters_map", <<>>)
        price_filter == Get(filters, "PRICE_FILTER", <<>>)
        tick_size == IF DOMAIN price_filter # {} THEN Get(price_filter, "tickSize", Zero) ELSE Zero
        Stepped(p) ==
            IF NonZero(tick_size) /\ FLess(Zero, tick_size)
            THEN _floor_to_step(p, tick_size) ELSE p
    IN  With(Stepped(price), LAMBDA price1 :
        IF "pricePrecision" \in DOMAIN info
        THEN _round_to_precision(price1, info["pricePrecision"]) ELSE price1)


(***************************************************************************)
(* TradingExecutor: the calls to the exchange.  An operation takes the     *)
(* engine and exchange state st and what its requests meet, and gives the  *)
(* value it returns (ret) and the state it leaves (st).                    *)
(***************************************************************************)
\* the rules the exchange publishes for a symbol whose lot step is step: one entry of
\* the 'symbols' list of GET /fapi/v1/exchangeInfo
ExchangeRules(symbol, step) ==
    [symbol |-> symbol, quantityPrecision |-> 3, pricePrecision |-> 1,
     filters |->
        << [filterType |-> "PRICE_FILTER", tickSize |-> Rat(1, 10)],
           [filterType |-> "LOT_SIZE", minQty |-> step, stepSize |-> step],
           [filterType |-> "MARKET_LOT_SIZE", minQty |-> step, stepSize |-> step],
           [filterType |-> "MIN_NOTIONAL", notional |-> R(5)] >>]

\* {f['filterType']: f for f in filters}: of two filters of one type the later stays
FiltersMap(filters) ==
    [t \in {filters[i]["filterType"] : i \in DOMAIN filters} |->
        filters[CHOOSE i \in DOMAIN filters :
                    /\ filters[i]["filterType"] = t
                    /\ \A j \in DOMAIN filters : filters[j]["filterType"] = t => j <= i]]

\* lines 59-62: the entry of the symbols list with its filters_map
WithFiltersMap(info) == Put(info, "filters_map", FiltersMap(Get(info, "filters", <<>>)))

\* what a lookup that reaches the exchange returns and caches
SymbolInfo(symbol) == WithFiltersMap(ExchangeRules(symbol, Rat(1, 1000)))

\* what GET /fapi/v1/exchangeInfo meets: out = "ok" is an answer that lists the
\* symbol, "fail" an exception (no answer, or a non-2xx answer)
ExchangeInfo(symbol, out) ==
    IF out = "ok" THEN [status |-> "ok", symbols |-> <<ExchangeRules(symbol, Rat(1, 1000))>>]
    ELSE [status |-> "fail", symbols |-> <<>>]

\* the price the public ticker reports
TickerPrice == R(100)

Logged(st, entry) == [st EXCEPT !.calls = Append(@, entry)]

\* the building of filters_map raises (KeyError) when a filter has no filterType
Malformed(info) ==
    \E i \in DOMAIN Get(info, "filters", <<>>) : "filterType" \notin DOMAIN info["filters"][i]

\* _get_symbol_info as it would be without lines 49-50: every lookup asks the exchange
_get_symbol_info_refreshing(st, symbol, answer) ==
    LET st1 == Logged(st, [call |-> "exchangeInfo", symbol |-> symbol,
                           outs |-> <<answer.status>>])
    IN  IF answer.status # "ok" \/ answer.symbols = <<>> THEN [ret |-> None, st |-> st1]
        ELSE IF Malformed(answer.symbols[1]) THEN [ret |-> None, st |-> st1]
        ELSE LET info == WithFiltersMap(answer.symbols[1])
             IN  [ret |-> info,
                  st |-> [st1 EXCEPT !.symbol_info_cache = Put(@, symbol, info)]]

\* answer is what the GET of line 53 meets, if it is sent: status "fail" for an
\* exception, or status "ok" and the 'symbols' list of the body
_get_symbol_info(st, symbol, answer) ==
    IF symbol \in DOMAIN st.symbol_info_cache
    THEN [ret |-> st.symbol_info_cache[symbol], st |-> st]
    ELSE LET st1 == Logged(st, [call |-> "exchangeInfo", symbol |-> symbol,
                                outs |-> <<answer.status>>])
         IN  IF answer.status # "ok" \/ answer.symbols = <<>> THEN [ret |-> None, st |-> st1]
             ELSE IF Malformed(answer.symbols[1]) THEN [ret |-> None, st |-> st1]
             ELSE LET info == WithFiltersMap(answer.symbols[1])
                  IN  [ret |-> info,
                       st |-> [st1 EXCEPT !.symbol_info_cache = Put(@, symbol, info)]]

\* the HTTP method of the executor's signed calls (lines 295, 344, 378, 404, 426)
MethodOf(call) ==
    CASE call \in {"leverage", "order"} -> "POST"
      [] call = "cancel" -> "DELETE"
      [] call = "openOrders" -> "GET"

\* a signed request: the value returned, whether the exchange carried the request
\* out, and the state with the request logged
Signed(st, call, params, outs, ok_body) ==
    LET a == _send_signed_request(MethodOf(call), st.has_credentials, st.has_credentials,
                                  outs, ok_body)
    IN  [resp |-> a.resp,
         applied |-> a.attempts > 0 /\ outs[a.attempts] = "ok",
         st |-> Logged(st, [call |-> call, params |-> params,
                            outs |-> SubSeq(outs, 1, a.attempts), resp |-> a.resp])]

\* set_leverage as it would be if line 296 did not look at the answer
set_leverage_unchecked(st, symbol, leverage, info_out, outs) ==
    LET g == _get_symbol_info(st, symbol, ExchangeInfo(symbol, info_out))
    IN  IF g.ret = None THEN [ret |-> FALSE, st |-> g.st]
        ELSE LET params == [symbol |-> symbol, leverage |-> leverage]
                 r == Signed(g.st, "leverage", params, outs, DictBody(params))
             IN  [ret |-> TRUE, st |-> r.st]

\* set_leverage as it would be if it sent the leverage call for an unknown symbol too
set_leverage_without_lookup(st, symbol, leverage, info_out, outs) ==
    LET g == _get_symbol_info(st, symbol, ExchangeInfo(symbol, info_out))
        params == [symbol |-> symbol, leverage |-> leverage]
        r == Signed(g.st, "leverage", params, <<"ok">>, DictBody(params))
    IN  [ret |-> Succeeded(r.resp), st |-> r.st]

set_leverage(st, symbol, leverage, info_out, outs) ==
    LET g == _get_symbol_info(st, symbol, ExchangeInfo(symbol, info_out))
    IN  IF g.ret = None THEN [ret |-> FALSE, st |-> g.st]
        ELSE LET params == [symbol |-> symbol, leverage |-> leverage]
                 r == Signed(g.st, "leverage", params, outs, DictBody(params))
             IN  [ret |-> Succeeded(r.resp), st |-> r.st]

\* _normalize_quantity and _normalize_price are pure.  Their values for the rules the
\* exchange publishes and the numbers the decisions of TradePool lead to (a quantity
\* of 1000 * 0.5 * 2 / 100 or / 300, the ticker's price or none, a stop at 95) are
\* tabulated (by @@) and looked up; for any other argument they are computed where
\* they are called
MarketQuantities ==
    [x \in {SymbolInfo("BTCUSDT")} \X {R(10), Rat(10, 3)} \X {TickerPrice, Zero} |->
        _normalize_quantity(x[1], x[2], x[3], "MARKET")] @@ <<>>

StopPrices ==
    [x \in {SymbolInfo("BTCUSDT")} \X {R(95)} |-> _normalize_price(x[1], x[2])] @@ <<>>

\* line 330
MarketQuantity(info, quantity, price) ==
    With(MarketQuantities, LAMBDA known :
    IF <<info, quantity, price>> \in DOMAIN known THEN known[<<info, quantity, price>>]
    ELSE _normalize_quantity(info, quantity, price, "MARKET"))

\* line 368
StopPrice(info, stop_price) ==
    With(StopPrices, LAMBDA known :
    IF <<info, stop_price>> \in DOMAIN known THEN known[<<info, stop_price>>]
    ELSE _normalize_price(info, stop_price))

\* lines 316-330 of place_market_order: the state after the lookups, and norm_qty
\* (None when the symbol is unknown)
MarketOrderQuantity(st, symbol, quantity, info_out, ticker_out) ==
    LET g == _get_symbol_info(st, symbol, ExchangeInfo(symbol, info_out))
    IN  IF g.ret = None THEN [norm_qty |-> None, st |-> g.st]
        ELSE LET st1 == Logged(g.st, [call |-> "ticker", symbol |-> symbol, outs |-> <<ticker_out>>])
                 price == IF ticker_out = "ok" THEN TickerPrice ELSE Zero
             IN  With(MarketQuantity(g.ret, quantity, price), LAMBDA norm_qty :
                      [norm_qty |-> norm_qty, st |-> st1])

\* place_market_order as it would be if line 346 did not look at the answer
place_market_order_unchecked(st, symbol, side, quantity, info_out, ticker_out, outs) ==
    With(MarketOrderQuantity(st, symbol, quantity, info_out, ticker_out), LAMBDA q :
        IF q.norm_qty = None THEN [ret |-> None, st |-> q.st]
        ELSE IF RLeq(q.norm_qty, Zero) THEN [ret |-> None, st |-> q.st]
        ELSE LET params == [symbol |-> symbol, side |-> side, type |-> "MARKET",
                            quantity |-> q.norm_qty]
                 r == Signed(q.st, "order", params, outs, DictBody([status |-> "FILLED"]))
             IN  [ret |-> r.resp, st |-> r.st])

place_market_order(st, symbol, side, quantity, info_out, ticker_out, outs) ==
    With(MarketOrderQuantity(st, symbol, quantity, info_out, ticker_out), LAMBDA q :
        IF q.norm_qty = None THEN [ret |-> None, st |-> q.st]
        ELSE IF RLeq(q.norm_qty, Zero) THEN [ret |-> None, st |-> q.st]
        ELSE LET params == [symbol |-> symbol, side |-> side, type |-> "MARKET",
                            quantity |-> q.norm_qty]
                 r == Signed(q.st, "order", params, outs, DictBody([status |-> "FILLED"]))
             IN  [ret |-> IF Succeeded(r.resp) THEN r.resp ELSE None, st |-> r.st])

\* place_stop_loss_order as it would be if a failed placement were sent once more
place_stop_loss_order_retried(st, symbol, side, quantity, stop_price, info_out, outs) ==
    With(_get_symbol_info(st, symbol, ExchangeInfo(symbol, info_out)), LAMBDA g :
    With(StopPrice(g.ret, stop_price), LAMBDA norm_price :
    LET params == [symbol |-> symbol, side |-> side, type |-> "STOP_MARKET",
                   stopPrice |-> norm_price, closePosition |-> "true"]
        order == [orderId |-> g.st.next_order_id, symbol |-> symbol, type |-> "STOP_MARKET",
                  side |-> side]
        r == Signed(g.st, "order", params, outs, DictBody([orderId |-> order.orderId]))
        again == Signed(r.st, "order", params, outs, DictBody([orderId |-> order.orderId]))
    IN  IF r.applied
        THEN [ret |-> r.resp,
              st |-> [r.st EXCEPT !.stop_orders = @ \cup {order}, !.next_order_id = @ + 1]]
        ELSE [ret |-> None, st |-> again.st]))

\* stop_price is a number here: float(stop_price) has not raised
place_stop_loss_order(st, symbol, side, quantity, stop_price, info_out, outs) ==
    With(_get_symbol_info(st, symbol, ExchangeInfo(symbol, info_out)), LAMBDA g :
    With(StopPrice(g.ret, stop_price), LAMBDA norm_price :
    LET params == [symbol |-> symbol, side |-> side, type |-> "STOP_MARKET",
                   stopPrice |-> norm_price, closePosition |-> "true"]
        order == [orderId |-> g.st.next_order_id, symbol |-> symbol, type |-> "STOP_MARKET",
                  side |-> side]
        r == Signed(g.st, "order", params, outs, DictBody([orderId |-> order.orderId]))
        st1 == IF r.applied
               THEN [r.st EXCEPT !.stop_orders = @ \cup {order}, !.next_order_id = @ + 1]
               ELSE r.st
    IN  [ret |-> IF Succeeded(r.resp) THEN r.resp ELSE None, st |-> st1]))

cancel_order(st, symbol, order_id, outs) ==
    LET params == [symbol |-> symbol, orderId |-> order_id]
        r == Signed(st, "cancel", params, outs, DictBody([orderId |-> order_id, status |-> "CANCELED"]))
        st1 == IF r.applied
               THEN [r.st EXCEPT !.stop_orders = {o \in @ : ~(o.symbol = symbol /\ o.orderId = order_id)}]
               ELSE r.st
    IN  [ret |-> Succeeded(r.resp), st |-> st1]

\* the open orders of a symbol as the exchange lists them, oldest first
RECURSIVE OpenOrders(_, _)
OpenOrders(orders, symbol) ==
    LET mine == {o \in orders : o.symbol = symbol}
    IN  IF mine = {} THEN <<>>
        ELSE LET first == CHOOSE o \in mine : \A x \in mine : o.orderId <= x.orderId
             IN  <<first>> \o OpenOrders(orders \ {first}, symbol)

\* lines 433-436: the loop over the listed orders; cancel_outs[i] is what the
\* cancel of the i-th of them meets
RECURSIVE CancelListed(_, _, _, _, _)
CancelListed(st, symbol, orders, cancel_outs, success) ==
    IF orders = <<>> THEN [ret |-> success, st |-> st]
    ELSE IF Head(orders).type \in {"STOP_MARKET", "STOP"}
    THEN LET c == cancel_order(st, symbol, Head(orders).orderId, Head(cancel_outs))
         IN  CancelListed(c.st, symbol, Tail(orders), Tail(cancel_outs), success /\ c.ret)
    ELSE CancelListed(st, symbol, Tail(orders), Tail(cancel_outs), success)

cancel_all_stop_loss_orders(st, symbol, outs, cancel_outs) ==
    LET r == Signed(st, "openOrders", [symbol |-> symbol], outs,
                    ListBody(OpenOrders(st.stop_orders, symbol)))
    IN  IF ~Truthy(r.resp) \/ _is_error_response(r.resp) THEN [ret |-> TRUE, st |-> r.st]
        ELSE CancelListed(r.st, symbol, r.resp.items, cancel_outs, TRUE)

(***************************************************************************)
(* What the requests of one decision may meet.                             *)
(***************************************************************************)
SignedScenarios ==
    {<<"ok">>, <<"timeout", "timeout", "timeout">>,
     <<"http_error", "http_error", "http_error">>}

\* no request is sent
NoRequest == <<>>

InfoChoices(st, symbol) ==
    IF symbol \in DOMAIN st.symbol_info_cache THEN {"cached"} ELSE {"ok", "fail"}

SignedChoices(st) == IF st.has_credentials THEN SignedScenarios ELSE {NoRequest}

\* the exchange cancels only an order that is open
CancelChoices(st, symbol, order_id) ==
    IF \E o \in st.stop_orders : o.symbol = symbol /\ o.orderId = order_id
    THEN SignedChoices(st)
    ELSE {outs \in SignedChoices(st) : \A i \in 1..Len(outs) : outs[i] # "ok"}


(***************************************************************************)
(* TradingExecutor.execute_trades: one step handles one decision of the    *)
(* list, from the top of the loop body to its end.                         *)
(***************************************************************************)
\* confidence_threshold, the constructor's default
confidence_threshold == Rat(3, 5)

\* the available_cash argument
available_cash == R(1000)

\* int(x) of a number: truncation towards zero
IntOf(x) == IF x.n >= 0 THEN x.n \div x.d ELSE -((-x.n) \div x.d)

\* the engine and the exchange as a decision finds them
EngineState ==
    [active_positions |-> active_positions, symbol_info_cache |-> symbol_info_cache,
     stop_orders |-> stop_orders, next_order_id |-> next_order_id,
     has_credentials |-> has_credentials, calls |-> <<>>]

\* the decision is taken from the list; st is the state its handling leaves
Taken(t, st) ==
    /\ last_trade' = t
    /\ todo' = todo - 1
    /\ handled' = Append(handled, <<Get(t, "symbol", "UNKNOWN"), Get(t, "action", "UNKNOWN")>>)
    /\ active_positions' = st.active_positions
    /\ symbol_info_cache' = st.symbol_info_cache
    /\ stop_orders' = st.stop_orders
    /\ next_order_id' = st.next_order_id
    /\ calls' = st.calls
    /\ UNCHANGED <<has_credentials, mvars, rvars>>

\* the record appended as in Recorded, as it would be without the += 1 on the counter
Recorded_uncounted(t, counter, status, st) ==
    /\ Taken(t, st)
    /\ results' = [results EXCEPT
          !["details"] = Append(@, [symbol |-> Get(t, "symbol", "UNKNOWN"),
                                     action |-> Get(t, "action", "UNKNOWN"),
                                     status |-> status])]
    /\ epc' = IF todo = 1 THEN "returned" ELSE "loop"

\* the counter is incremented and the detail record appended; the loop goes on, or
\* execute_trades returns results after the last decision
Recorded(t, counter, status, st) ==
    /\ Taken(t, st)
    /\ results' = [results EXCEPT
          ![counter] = @ + 1,
          !["details"] = Append(@, [symbol |-> Get(t, "symbol", "UNKNOWN"),
                                     action |-> Get(t, "action", "UNKNOWN"),
                                     status |-> status])]
    /\ epc' = IF todo = 1 THEN "returned" ELSE "loop"

\* lines 612-625
Dispatched(t, success, st) ==
    IF success THEN Recorded(t, "executed", "success", st)
    ELSE Recorded(t, "failed", "failed", st)

\* an exception leaves execute_trades, which has no handler
Raised(t, st) ==
    /\ Taken(t, st)
    /\ epc' = "raised"
    /\ UNCHANGED results

\* lines 331-344: the order request is sent
OrderIsSent(q) == q.norm_qty # None /\ RLess(Zero, q.norm_qty)

\* lines 476-479: the entry order failed
CleanupAfterFailedEntry(t, st, symbol) ==
    \E outs \in SignedChoices(st) :
        LET listed == IF st.has_credentials /\ outs[Len(outs)] = "ok"
                      THEN OpenOrders(st.stop_orders, symbol) ELSE <<>>
        IN  \E cancel_outs \in [1..Len(listed) -> SignedChoices(st)] :
            \E c \in {cancel_all_stop_loss_orders(st, symbol, outs, cancel_outs)} :
                Dispatched(t, FALSE, c.st)

\* lines 481-495 as they would be if a failed stop placement failed the decision
\* and kept the position out of the ledger
ProtectAndRecordOnlyIfProtected(t, st, symbol, direction, leverage, quantity, entry_price) ==
    IF ~IsNumber(t["stop_loss"]) THEN Raised(t, st)
    ELSE \E info_out \in InfoChoices(st, symbol), outs \in SignedChoices(st) :
        LET stop_side == IF direction = "LONG" THEN "SELL" ELSE "BUY"
        IN
        \E p \in {place_stop_loss_order(st, symbol, stop_side, quantity, t["stop_loss"],
                                        info_out, outs)} :
        LET position == [direction |-> direction, quantity |-> quantity,
                         entry_price |-> entry_price, stop_loss |-> t["stop_loss"],
                         leverage |-> leverage,
                         stop_order_id |-> [id |-> p.ret.body["orderId"]]]
        IN  IF p.ret = None THEN Dispatched(t, FALSE, p.st)
            ELSE Dispatched(t, TRUE, [p.st EXCEPT !.active_positions = Put(@, symbol, position)])

\* lines 481-495: the entry order succeeded
ProtectAndRecord(t, st, symbol, direction, leverage, quantity, entry_price) ==
    IF ~IsNumber(t["stop_loss"]) THEN Raised(t, st)
    ELSE \E info_out \in InfoChoices(st, symbol), outs \in SignedChoices(st) :
        LET stop_side == IF direction = "LONG" THEN "SELL" ELSE "BUY"
        IN
        \E p \in {place_stop_loss_order(st, symbol, stop_side, quantity, t["stop_loss"],
                                        info_out, outs)} :
        LET position == [direction |-> direction, quantity |-> quantity,
                         entry_price |-> entry_price, stop_loss |-> t["stop_loss"],
                         leverage |-> leverage,
                         stop_order_id |-> IF p.ret = None THEN None
                                           ELSE [id |-> p.ret.body["orderId"]]]
        IN  Dispatched(t, TRUE, [p.st EXCEPT !.active_positions = Put(@, symbol, position)])

\* lines 461-479, after set_leverage returned True
SizeAndEnter(t, st, symbol, direction, leverage) ==
    IF ~IsNumber(t["position_size_percent"]) THEN Raised(t, st)
    ELSE
    LET entry_price == Get(t, "entry_price_target", Zero)
    IN  IF ~IsNumber(entry_price) THEN Raised(t, st)
        ELSE IF RLeq(entry_price, Zero) THEN Dispatched(t, FALSE, st)
        ELSE
        \E position_value \in
               {FMul(FMul(available_cash, t["position_size_percent"]), R(leverage))} :
        \E quantity \in {FDiv(position_value, entry_price)} :
        LET side == IF direction = "LONG" THEN "BUY" ELSE "SELL"
        IN  \E info_out \in InfoChoices(st, symbol), ticker_out \in {"ok", "fail"} :
            \E q \in {MarketOrderQuantity(st, symbol, quantity, info_out, ticker_out)} :
            \E outs \in (IF OrderIsSent(q) THEN SignedChoices(st) ELSE {NoRequest}) :
            \E m \in {place_market_order(st, symbol, side, quantity, info_out, ticker_out, outs)} :
                IF m.ret = None THEN CleanupAfterFailedEntry(t, m.st, symbol)
                ELSE ProtectAndRecord(t, m.st, symbol, direction, leverage,
                                      quantity, entry_price)

OpenFields == {"symbol", "direction", "leverage", "position_size_percent", "stop_loss"}

execute_open_position(t, st) ==
    IF ~(OpenFields \subseteq DOMAIN t) \/ ~IsNumber(t["leverage"]) THEN Raised(t, st)
    ELSE
    LET symbol == t["symbol"]
        direction == t["direction"]
        leverage == IntOf(t["leverage"])
    IN  \E info_out \in InfoChoices(st, symbol) :
        \E outs \in (IF info_out = "fail" THEN {NoRequest} ELSE SignedChoices(st)) :
        \E l \in {set_leverage(st, symbol, leverage, info_out, outs)} :
            IF ~l.ret THEN Dispatched(t, FALSE, l.st)
            ELSE SizeAndEnter(t, l.st, symbol, direction, leverage)

\* lines 520-532
CloseAtMarket(t, st, symbol, position) ==
    LET side == IF position.direction = "LONG" THEN "SELL" ELSE "BUY"
    IN  \E info_out \in InfoChoices(st, symbol), ticker_out \in {"ok", "fail"} :
        \E q \in {MarketOrderQuantity(st, symbol, position.quantity, info_out, ticker_out)} :
        \E outs \in (IF OrderIsSent(q) THEN SignedChoices(st) ELSE {NoRequest}) :
        \E m \in {place_market_order(st, symbol, side, position.quantity,
                                     info_out, ticker_out, outs)} :
            IF m.ret # None
            THEN Dispatched(t, TRUE, [m.st EXCEPT !.active_positions = Without(@, symbol)])
            ELSE Dispatched(t, FALSE, m.st)

\* line 517, position.get('stop_order_id') as a condition: the entry names an order
\* and its id is not 0 (the exchange of the model numbers its orders from 1)
StopIsRecorded(position) ==
    /\ position.stop_order_id # None
    /\ position.stop_order_id.id # 0

\* execute_close_position as it would be if a missing ledger entry counted as closed
execute_close_position_lenient(t, st) ==
    IF "symbol" \notin DOMAIN t THEN Raised(t, st)
    ELSE IF t["symbol"] \notin DOMAIN st.active_positions THEN Dispatched(t, TRUE, st)
    ELSE
    LET symbol == t["symbol"]
        position == st.active_positions[symbol]
    IN  IF StopIsRecorded(position)
        THEN \E outs \in CancelChoices(st, symbol, position.stop_order_id.id) :
             \E c \in {cancel_order(st, symbol, position.stop_order_id.id, outs)} :
                CloseAtMarket(t, c.st, symbol, position)
        ELSE CloseAtMarket(t, st, symbol, position)

execute_close_position(t, st) ==
    IF "symbol" \notin DOMAIN t THEN Raised(t, st)
    ELSE IF t["symbol"] \notin DOMAIN st.active_positions THEN Dispatched(t, FALSE, st)
    ELSE
    LET symbol == t["symbol"]
        position == st.active_positions[symbol]
    IN  IF StopIsRecorded(position)
        THEN \E outs \in CancelChoices(st, symbol, position.stop_order_id.id) :
             \E c \in {cancel_order(st, symbol, position.stop_order_id.id, outs)} :
                CloseAtMarket(t, c.st, symbol, position)
        ELSE CloseAtMarket(t, st, symbol, position)

\* is_loss as it would be without the SHORT branch of lines 581-582
IsLossLongOnly(t) ==
    LET position == active_positions[Get(t, "symbol", "UNKNOWN")]
        current_price == Get(t, "entry_price_target", position.entry_price)
    IN  position.direction = "LONG" /\ RLess(current_price, position.entry_price)

\* lines 572-583 (is_loss, for a CLOSE on a symbol of the ledger)
IsLoss(t) ==
    LET position == active_positions[Get(t, "symbol", "UNKNOWN")]
        current_price == Get(t, "entry_price_target", position.entry_price)
    IN  \/ position.direction = "LONG" /\ RLess(current_price, position.entry_price)
        \/ position.direction = "SHORT" /\ RLess(position.entry_price, current_price)

\* the gate as it would be if it were applied to OPEN decisions only
BelowThresholdForOpen(t) ==
    /\ Get(t, "action", "UNKNOWN") = "OPEN"
    /\ FLess(Get(t, "confidence", Zero), confidence_threshold)

\* line 561
BelowThreshold(t) == FLess(Get(t, "confidence", Zero), confidence_threshold)

LossGuarded(t) ==
    /\ Get(t, "action", "UNKNOWN") = "CLOSE"
    /\ Get(t, "symbol", "UNKNOWN") \in DOMAIN active_positions
    /\ IsLoss(t)

Reaches(t, actions) ==
    /\ epc = "loop"
    /\ ~BelowThreshold(t)
    /\ ~LossGuarded(t)
    /\ Get(t, "action", "UNKNOWN") \in actions

\* lines 561-569
SkipLowConfidence(t) ==
    /\ epc = "loop"
    /\ BelowThreshold(t)
    /\ \E st \in {EngineState} :
          Recorded(t, "skipped_low_confidence", "skipped_low_confidence", st)

\* lines 572-593
SkipLossPosition(t) ==
    /\ epc = "loop"
    /\ ~BelowThreshold(t)
    /\ LossGuarded(t)
    /\ \E st \in {EngineState} :
          Recorded(t, "skipped_low_confidence", "skipped_loss_position", st)

\* lines 598-599 and 605-608
Open(t) ==
    /\ Reaches(t, {"OPEN", "BP", "SP"})
    /\ \E st \in {EngineState} : execute_open_position(t, st)

\* lines 600-601
Close(t) ==
    /\ Reaches(t, {"CLOSE"})
    /\ \E st \in {EngineState} : execute_close_position(t, st)

\* lines 602-604 as they would be without success = True
HoldWithoutSuccess(t) ==
    /\ Reaches(t, {"HOLD"})
    /\ \E st \in {EngineState} : Dispatched(t, FALSE, st)

\* lines 602-604
Hold(t) ==
    /\ Reaches(t, {"HOLD"})
    /\ \E st \in {EngineState} : Dispatched(t, TRUE, st)

\* lines 609-610 as they would be reached without the branch of lines 605-608
UnknownActionOrBreakout(t) ==
    /\ epc = "loop"
    /\ ~BelowThreshold(t)
    /\ ~LossGuarded(t)
    /\ Get(t, "action", "UNKNOWN") \notin {"OPEN", "CLOSE", "HOLD"}
    /\ \E st \in {EngineState} : Dispatched(t, FALSE, st)

\* lines 609-610 as they would be if the else branch set success = True
UnknownActionCounted(t) ==
    /\ epc = "loop"
    /\ ~BelowThreshold(t)
    /\ ~LossGuarded(t)
    /\ Get(t, "action", "UNKNOWN") \notin {"OPEN", "CLOSE", "HOLD", "BP", "SP"}
    /\ \E st \in {EngineState} : Dispatched(t, TRUE, st)

\* lines 609-610
UnknownAction(t) ==
    /\ epc = "loop"
    /\ ~BelowThreshold(t)
    /\ ~LossGuarded(t)
    /\ Get(t, "action", "UNKNOWN") \notin {"OPEN", "CLOSE", "HOLD", "BP", "SP"}
    /\ \E st \in {EngineState} : Dispatched(t, FALSE, st)

(***************************************************************************)
(* The decisions execute_trades may be given.                              *)
(***************************************************************************)
Decision(action, direction, price, confidence) ==
    [action |-> action, symbol |-> "BTCUSDT", direction |-> direction,
     leverage |-> R(2), position_size_percent |-> Rat(1, 2), stop_loss |-> R(95),
     entry_price_target |-> price, confidence |-> confidence]

WellFormedOpen == Decision("OPEN", "LONG", R(100), R(1))

TradePool ==
    {Decision("OPEN", d, R(100), Rat(3, 5)) : d \in {"LONG", "SHORT", "long"}}
    \cup {Decision("OPEN", "LONG", Zero, R(1))}
    \cup {Decision("CLOSE", "LONG", p, R(1)) : p \in {R(90), R(100), R(110)}}
    \cup {Decision(a, "LONG", R(100), Rat(3, 5)) : a \in {"HOLD", "BREAKOUT_LONG", "open"}}
    \cup {Decision("BREAKOUT_SHORT", "SHORT", R(100), Rat(3, 5))}
    \cup {Decision("BP", "LONG", R(300), Rat(3, 5))}
    \cup {Decision("SP", "SHORT", Zero, Rat(3, 5))}
    \cup {Decision(a, "LONG", R(100), Rat(1, 2)) : a \in {"OPEN", "CLOSE", "HOLD"}}
    \cup {Without(WellFormedOpen, f) :
        f \in {"symbol", "direction", "stop_loss", "entry_price_target", "confidence", "action"}}
    \cup {Put(WellFormedOpen, f, NotANumber) :
        f \in {"leverage", "position_size_percent", "stop_loss"}}
    \cup {Without(Decision("CLOSE", "LONG", R(100), R(1)), f) :
        f \in {"symbol", "entry_price_target"}}

\* a protective order an earlier run of the process left open on the exchange (the
\* ledger is in memory only, the exchange's orders outlive the process)
StrayStops ==
    {[orderId |-> 1, symbol |-> "BTCUSDT", type |-> "STOP_MARKET", side |-> "SELL"]}

InitExec ==
    /\ all_decisions = <<>>
    /\ n_ai_models = 0
    /\ final_trades = <<>>
    /\ mpc = "idle"
    /\ active_positions = <<>>
    /\ symbol_info_cache = <<>>
    /\ \E n \in 0..MaxTrades :
          /\ todo = n
          /\ results = [total |-> n, executed |-> 0, skipped_low_confidence |-> 0,
                        failed |-> 0, details |-> <<>>]
          /\ epc = IF n = 0 THEN "returned" ELSE "loop"
    /\ last_trade = <<>>
    /\ handled = <<>>
    /\ stop_orders \in {{}, StrayStops}
    /\ next_order_id = 1 + Cardinality(stop_orders)
    /\ has_credentials \in BOOLEAN
    /\ calls = <<>>
    /\ RequestIdle

NextExec ==
    \E t \in TradePool :
        \/ SkipLowConfidence(t)
        \/ SkipLossPosition(t)
        \/ Open(t)
        \/ Close(t)
        \/ Hold(t)
        \/ UnknownAction(t)

Spec == InitExec /\ [][NextExec]_vars


(***************************************************************************)
(* Properties of execute_trades.  In a step, last_trade' is the decision   *)
(* the step handles and calls' the exchange calls made for it.             *)
(***************************************************************************)
LastDetail == results.details[Len(results.details)]

DetailOf(t, status) ==
    [symbol |-> Get(t, "symbol", "UNKNOWN"), action |-> Get(t, "action", "UNKNOWN"),
     status |-> status]

LowConfidence(t) == FLess(Get(t, "confidence", Zero), Rat(3, 5))

\* C5: a decision whose confidence is strictly below the threshold, whatever its
\* action, causes no exchange call, leaves the ledger (and the exchange's orders)
\* as they were, and is recorded as skipped_low_confidence and not as executed.
C5_ConfidenceGate ==
    [][LowConfidence(last_trade') =>
          /\ calls' = <<>>
          /\ active_positions' = active_positions
          /\ stop_orders' = stop_orders
          /\ results'.details =
                Append(results.details, DetailOf(last_trade', "skipped_low_confidence"))
          /\ results'.skipped_low_confidence = results.skipped_low_confidence + 1
          /\ results'.executed = results.executed
          /\ results'.failed = results.failed]_vars

\* a CLOSE of low confidence met an open position and left it in the ledger
C5_Witness ==
    /\ Len(results.details) > 0
    /\ LastDetail.status = "skipped_low_confidence"
    /\ Get(last_trade, "action", "UNKNOWN") = "CLOSE"
    /\ LowConfidence(last_trade)
    /\ Get(last_trade, "symbol", "UNKNOWN") \in DOMAIN active_positions
    /\ calls = <<>>

\* C6: a CLOSE that passes the confidence gate, for an instrument with a position in
\* the ledger, is stopped by the loss guard (no call to the exchange, the ledger as it
\* was, not counted as executed, recorded as skipped_loss_position) if and only if
\* its target price is below the entry price of a LONG or above that of a SHORT;
\* when it is not stopped the close is attempted.
C6_LossGuard ==
    [][LET t == last_trade'
           symbol == Get(t, "symbol", "UNKNOWN")
       IN  (/\ Get(t, "action", "UNKNOWN") = "CLOSE"
            /\ ~LowConfidence(t)
            /\ symbol \in DOMAIN active_positions)
           => LET position == active_positions[symbol]
                  loss ==
                     /\ "entry_price_target" \in DOMAIN t
                     /\ \/ /\ position.direction = "LONG"
                           /\ RLess(t["entry_price_target"], position.entry_price)
                        \/ /\ position.direction = "SHORT"
                           /\ RLess(position.entry_price, t["entry_price_target"])
                  stopped ==
                     /\ calls' = <<>>
                     /\ active_positions' = active_positions
                     /\ results'.executed = results.executed
                     /\ results'.details =
                           Append(results.details, DetailOf(t, "skipped_loss_position"))
              IN  /\ loss <=> stopped
                  /\ ~loss => calls' # <<>>]_vars

\* a CLOSE of confidence 1.0 above the entry price of a SHORT was stopped
C6_Witness ==
    /\ Len(results.details) > 0
    /\ LastDetail.status = "skipped_loss_position"
    /\ last_trade["confidence"] = R(1)
    /\ last_trade["symbol"] \in DOMAIN active_positions
    /\ active_positions[last_trade["symbol"]].direction = "SHORT"
    /\ RLess(active_positions[last_trade["symbol"]].entry_price,
             last_trade["entry_price_target"])

\* the cleanup of lines 476-479 ran: place_market_order returned None for an entry
EntryOrderFailed ==
    /\ Get(last_trade, "action", "UNKNOWN") \in {"OPEN", "BP", "SP"}
    /\ \E i \in 1..Len(calls) : calls[i].call = "openOrders"

\* C7: after an OPEN decision whose entry market order failed, the exchange holds no
\* protective stop order for the instrument, whatever the open-orders query and the
\* cancels of the cleanup met.
C7_NoStopAfterFailedEntry ==
    EntryOrderFailed =>
        ~\E o \in stop_orders : o.symbol = last_trade["symbol"] /\ o.type = "STOP_MARKET"

\* a signed request whose max_retries attempts all timed out
TimedOut(e) ==
    /\ "resp" \in DOMAIN e
    /\ Len(e.outs) = max_retries
    /\ \A k \in 1..Len(e.outs) : e.outs[k] = "timeout"

\* the request places the protective stop, or cancels it ahead of a close
StopHandling(e, t) ==
    \/ e.call = "order" /\ e.params.type = "STOP_MARKET"
    \/ e.call = "cancel" /\ Get(t, "action", "UNKNOWN") = "CLOSE"

\* C8 as stated: a signed request that times out on all 3 attempts returns the Timeout
\* error value, and the decision that issued it leaves the ledger as it was.
C8_TimeoutLeavesLedger ==
    [][\A i \in 1..Len(calls') :
          TimedOut(calls'[i]) =>
              /\ calls'[i].resp = RequestTimeout
              /\ active_positions' = active_positions]_vars

\* C8 amended: a signed request that times out on all 3 attempts returns the Timeout
\* error value; the decision that issued it leaves the ledger as it was when the
\* request is the leverage call, an entry or closing market order, or a request of
\* the cleanup after a failed entry (not the placement of the protective stop, nor
\* the cancel of the protective stop ahead of a close).
C8_TimeoutOutsideStopHandling ==
    [][\A i \in 1..Len(calls') :
          TimedOut(calls'[i]) =>
              /\ calls'[i].resp = RequestTimeout
              /\ ~StopHandling(calls'[i], last_trade') =>
                    active_positions' = active_positions]_vars

\* the closing market order of a CLOSE timed out three times and the position is
\* still in the ledger
C8_Witness ==
    /\ Get(last_trade, "action", "UNKNOWN") = "CLOSE"
    /\ Get(last_trade, "symbol", "UNKNOWN") \in DOMAIN active_positions
    /\ \E i \in 1..Len(calls) :
          /\ TimedOut(calls[i])
          /\ calls[i].call = "order"
          /\ calls[i].params.type = "MARKET"
          /\ calls[i].resp = RequestTimeout

\* C9: for every list of decisions, also with decisions lacking a field their action
\* needs or carrying a non-numeric one, no exception leaves execute_trades and the
\* summary it returns has a detail record for every decision.
C9_NoExceptionEscapes ==
    /\ epc # "raised"
    /\ epc = "returned" => Len(results.details) = results.total

\* C10: a decision that fails (it is neither executed nor skipped) adds exactly one
\* detail record, of status failed, and the decisions after it are still processed:
\* the loop goes on while decisions are left and returns after the last.
C10_FailureIsRecordedAndLoopGoesOn ==
    [][(/\ results'.executed = results.executed
        /\ results'.skipped_low_confidence = results.skipped_low_confidence)
       => /\ results'.details = Append(results.details, DetailOf(last_trade', "failed"))
          /\ results'.failed = results.failed + 1
          /\ epc' = IF todo' > 0 THEN "loop" ELSE "returned"]_vars


(***************************************************************************)
(* The exchange calls of one decision, by kind.                            *)
(***************************************************************************)
IsLeverageCall(e) == e.call = "leverage"
IsMarketOrder(e) == e.call = "order" /\ e.params.type = "MARKET"
IsStopPlacement(e) == e.call = "order" /\ e.params.type = "STOP_MARKET"
IsCancel(e) == e.call = "cancel"
IsOpenOrdersQuery(e) == e.call = "openOrders"

CountCalls(Kind(_)) == Cardinality({i \in 1..Len(calls) : Kind(calls[i])})

\* the stop orders the open-orders query of the cleanup listed
ListedByCleanup ==
    LET q == CHOOSE i \in 1..Len(calls) : IsOpenOrdersQuery(calls[i])
    IN  IF calls[q].resp.type = "list" THEN Len(calls[q].resp.items) ELSE 0

\* C11 as stated: for one decision there is at most one leverage-set call, at most
\* one market-order call and at most one protective-order placement or cancel call,
\* on every path, the cleanup after a failed entry order included.
C11_AtMostOneCallOfEachKind ==
    /\ CountCalls(IsLeverageCall) <= 1
    /\ CountCalls(IsMarketOrder) <= 1
    /\ CountCalls(IsStopPlacement) + CountCalls(IsCancel) <= 1

\* C11 amended: for one decision there is at most one leverage-set call, at most one
\* market-order call and at most one protective-order placement; without a cleanup
\* there is at most one placement or cancel; the cleanup after a failed entry order
\* makes one open-orders query, no placement, and one cancel for every stop order the
\* query listed.
C11_OneCallOfEachKindButCleanup ==
    /\ CountCalls(IsLeverageCall) <= 1
    /\ CountCalls(IsMarketOrder) <= 1
    /\ CountCalls(IsStopPlacement) <= 1
    /\ CountCalls(IsOpenOrdersQuery) <= 1
    /\ IF CountCalls(IsOpenOrdersQuery) = 0
       THEN CountCalls(IsStopPlacement) + CountCalls(IsCancel) <= 1
       ELSE /\ CountCalls(IsStopPlacement) = 0
            /\ CountCalls(IsCancel) = ListedByCleanup

\* the cleanup after a failed entry order cancelled two stop orders
C11_Witness ==
    /\ EntryOrderFailed
    /\ CountCalls(IsMarketOrder) = 1
    /\ CountCalls(IsCancel) = 2


\* the decision handled last was an entry whose market order was filled and whose
\* protective stop placement failed
StopFailedAfterEntry ==
    /\ Get(last_trade, "action", "UNKNOWN") \in {"OPEN", "BP", "SP"}
    /\ \E i \in 1..Len(calls) : IsMarketOrder(calls[i]) /\ Succeeded(calls[i].resp)
    /\ \E i \in 1..Len(calls) : IsStopPlacement(calls[i]) /\ ~Succeeded(calls[i].resp)

\* C12: when the entry market order of an OPEN succeeds and the placement of the
\* protective stop then fails, the decision is recorded as executed (success), the
\* position is in the ledger with a null protective-order id, and the engine sent
\* the stop placement once only and no closing order: the failed placement is the
\* last call of the decision.
C12_UnprotectedPositionIsRecorded ==
    StopFailedAfterEntry =>
        /\ epc # "raised"
        /\ LastDetail = DetailOf(last_trade, "success")
        /\ last_trade["symbol"] \in DOMAIN active_positions
        /\ active_positions[last_trade["symbol"]] =
              [direction |-> last_trade["direction"],
               quantity |-> RDiv(RMul(RMul(R(1000), last_trade["position_size_percent"]),
                                      R(IntOf(last_trade["leverage"]))),
                                 last_trade["entry_price_target"]),
               entry_price |-> last_trade["entry_price_target"],
               stop_loss |-> last_trade["stop_loss"],
               leverage |-> IntOf(last_trade["leverage"]),
               stop_order_id |-> None]
        /\ CountCalls(IsStopPlacement) = 1
        /\ CountCalls(IsMarketOrder) = 1
        /\ CountCalls(IsCancel) = 0
        /\ IsStopPlacement(calls[Len(calls)])

\* an entry was filled, the stop placement timed out three times, and the position
\* is in the ledger without a stop order id
C12_Witness ==
    /\ StopFailedAfterEntry
    /\ \E i \in 1..Len(calls) : IsStopPlacement(calls[i]) /\ TimedOut(calls[i])
    /\ active_positions[last_trade["symbol"]].stop_order_id = None
    /\ results.executed >= 1


\* C13: a CLOSE decision that passes the confidence gate and names an instrument
\* with no ledger entry is recorded as failed, causes no exchange call and leaves
\* the ledger (and the exchange's orders and the rule cache) as they were.
C13_CloseWithoutPositionFails ==
    [][(/\ Get(last_trade', "action", "UNKNOWN") = "CLOSE"
        /\ ~LowConfidence(last_trade')
        /\ "symbol" \in DOMAIN last_trade'
        /\ Get(last_trade', "symbol", "UNKNOWN") \notin DOMAIN active_positions)
       => /\ calls' = <<>>
          /\ active_positions' = active_positions
          /\ stop_orders' = stop_orders
          /\ symbol_info_cache' = symbol_info_cache
          /\ results'.details = Append(results.details, DetailOf(last_trade', "failed"))
          /\ results'.failed = results.failed + 1
          /\ results'.executed = results.executed]_vars

\* a CLOSE of confidence 1.0 met an empty ledger and was recorded as failed
C13_Witness ==
    /\ Get(last_trade, "action", "UNKNOWN") = "CLOSE"
    /\ Get(last_trade, "confidence", Zero) = R(1)
    /\ "symbol" \in DOMAIN last_trade
    /\ DOMAIN active_positions = {}
    /\ Len(results.details) = 1
    /\ LastDetail.status = "failed"
    /\ calls = <<>>


CountIn(log, Kind(_)) == Cardinality({i \in 1..Len(log) : Kind(log[i])})

\* the target of a CLOSE is on the losing side of the position's entry price
RealisesLoss(t, position) ==
    /\ "entry_price_target" \in DOMAIN t
    /\ \/ /\ position.direction = "LONG"
          /\ RLess(t["entry_price_target"], position.entry_price)
       \/ /\ position.direction = "SHORT"
          /\ RLess(position.entry_price, t["entry_price_target"])

\* t is a CLOSE that reaches dispatch and finds a ledger entry
ClosesAPosition(t) ==
    /\ Get(t, "action", "UNKNOWN") = "CLOSE"
    /\ ~LowConfidence(t)
    /\ Get(t, "symbol", "UNKNOWN") \in DOMAIN active_positions
    /\ ~RealisesLoss(t, active_positions[t["symbol"]])

\* what C14 says of the step that handles the CLOSE t of the ledger entry position
ClosingStep(t, position) ==
    LET symbol == t["symbol"]
        side == IF position.direction = "LONG" THEN "SELL" ELSE "BUY"
        filled == \E i \in 1..Len(calls') :
                     IsMarketOrder(calls'[i]) /\ Succeeded(calls'[i].resp)
    IN  /\ position.stop_order_id # None =>
              /\ \E i \in 1..Len(calls') :
                    /\ IsCancel(calls'[i])
                    /\ calls'[i].params =
                          [symbol |-> symbol, orderId |-> position.stop_order_id.id]
                    /\ \A j \in 1..Len(calls') : IsMarketOrder(calls'[j]) => i < j
              /\ ~\E o \in stop_orders' :
                    o.symbol = symbol /\ o.orderId = position.stop_order_id.id
        /\ CountIn(calls', IsMarketOrder) = 1
        /\ \A i \in 1..Len(calls') :
              IsMarketOrder(calls'[i]) =>
                 calls'[i].params = [symbol |-> symbol, side |-> side, type |-> "MARKET",
                                     quantity |-> position.quantity]
        /\ filled <=> symbol \notin DOMAIN active_positions'
        /\ filled => active_positions' = Without(active_positions, symbol)
        /\ ~filled => active_positions' = active_positions
        /\ results'.details =
              Append(results.details, DetailOf(t, IF filled THEN "success" ELSE "failed"))

\* C14: for a CLOSE that reaches dispatch with a ledger entry, the recorded protective
\* order is cancelled (it is open no more) before the closing market order is sent, the
\* closing order is on the opposite side for the recorded quantity, the entry is removed
\* exactly when the closing order succeeds and retained unchanged when it fails.
C14_CloseForRecordedQuantity ==
    [][ClosesAPosition(last_trade') =>
          ClosingStep(last_trade', active_positions[last_trade'["symbol"]])]_vars

\* C15: a HOLD decision that reaches dispatch causes no exchange call, leaves the
\* ledger, the rule cache and the exchange's orders as they were, and is recorded as
\* executed (success).
C15_HoldIsANoOpSuccess ==
    [][(Get(last_trade', "action", "UNKNOWN") = "HOLD" /\ ~LowConfidence(last_trade'))
       => /\ calls' = <<>>
          /\ active_positions' = active_positions
          /\ symbol_info_cache' = symbol_info_cache
          /\ stop_orders' = stop_orders
          /\ results'.details = Append(results.details, DetailOf(last_trade', "success"))
          /\ results'.executed = results.executed + 1
          /\ results'.failed = results.failed
          /\ epc' # "raised"]_vars

\* a HOLD was recorded as success while the ledger held a position
C15_Witness ==
    /\ Get(last_trade, "action", "UNKNOWN") = "HOLD"
    /\ LastDetail.status = "success"
    /\ DOMAIN active_positions # {}
    /\ calls = <<>>

\* the calls of a decision begin as execute_open_position begins: with the rule
\* lookup of set_leverage, or with its leverage call when the rules are cached
TookOpenPath(log) ==
    /\ log # <<>>
    /\ log[1].call \in {"exchangeInfo", "leverage"}

\* the decision handled last went all the way through the open path
OpenedAPosition ==
    /\ CountCalls(IsLeverageCall) = 1
    /\ CountCalls(IsMarketOrder) = 1
    /\ CountCalls(IsStopPlacement) = 1
    /\ last_trade["symbol"] \in DOMAIN active_positions
    /\ active_positions[last_trade["symbol"]].direction = last_trade["direction"]
    /\ active_positions[last_trade["symbol"]].entry_price = last_trade["entry_price_target"]

\* C16 as stated: a decision with action BREAKOUT_LONG or BREAKOUT_SHORT that passes
\* the confidence gate goes through the open path, not to the unrecognized-action
\* failure.
C16_BreakoutNamesTakeOpenPath ==
    [][(/\ Get(last_trade', "action", "UNKNOWN") \in {"BREAKOUT_LONG", "BREAKOUT_SHORT"}
        /\ ~LowConfidence(last_trade'))
       => TookOpenPath(calls')]_vars

\* C16 amended: a decision with action BP or SP that passes the confidence gate goes
\* through the open path (it starts with set_leverage, and when it is recorded as
\* success the leverage call, the entry order, the stop placement and the ledger
\* write have happened); the actions BREAKOUT_LONG and BREAKOUT_SHORT are not
\* recognized: they fail with no call and no ledger change.
C16_BPAndSPTakeOpenPath ==
    [][/\ (/\ Get(last_trade', "action", "UNKNOWN") \in {"BP", "SP"}
           /\ ~LowConfidence(last_trade'))
          => /\ TookOpenPath(calls')
             /\ results'.executed = results.executed + 1 => OpenedAPosition'
       /\ (/\ Get(last_trade', "action", "UNKNOWN") \in {"BREAKOUT_LONG", "BREAKOUT_SHORT"}
           /\ ~LowConfidence(last_trade'))
          => /\ calls' = <<>>
             /\ active_positions' = active_positions
             /\ results'.details = Append(results.details, DetailOf(last_trade', "failed"))
      ]_vars

\* a BP decision was recorded as success and its position is in the ledger
C16_Witness ==
    /\ Get(last_trade, "action", "UNKNOWN") = "BP"
    /\ LastDetail.status = "success"
    /\ OpenedAPosition
    /\ active_positions[last_trade["symbol"]].stop_order_id # None

\* C17: an OPEN decision whose target entry price is zero or negative (or absent) is
\* recorded as failed without any network call (no rule lookup, no leverage call, no
\* order) and with the ledger unchanged.
C17_BadPriceFailsWithoutCalls ==
    [][(/\ Get(last_trade', "action", "UNKNOWN") = "OPEN"
        /\ ~LowConfidence(last_trade')
        /\ OpenFields \subseteq DOMAIN last_trade'
        /\ \A f \in OpenFields \ {"symbol", "direction"} : IsNumber(last_trade'[f])
        /\ RLeq(Get(last_trade', "entry_price_target", Zero), Zero))
       => /\ calls' = <<>>
          /\ active_positions' = active_positions
          /\ results'.details = Append(results.details, DetailOf(last_trade', "failed"))
      ]_vars


(***************************************************************************)
(* TradingExecutor._send_signed_request followed on its own: one call with *)
(* any method, endpoint, parameter set and credentials, its attempts       *)
(* meeting any outcomes.                                                   *)
(***************************************************************************)
\* "exception" is an exception other than those of the requests library, raised while
\* the request is sent or its answer read
AttemptOutcomes == {"ok", "rejected", "timeout", "conn_error", "http_error", "exception"}

RequestMethods == SupportedMethods \cup {"PUT"}

RequestEndpoints == {"/fapi/v1/leverage", "/fapi/v1/order", "/fapi/v1/openOrders"}

RequestParams ==
    {<<>>, [symbol |-> "BTCUSDT"], [symbol |-> "BTCUSDT", recvWindow |-> 1000]}

\* what time.time() * 1000 gives at the three attempts: the clock advancing, standing
\* still, and set back
ClockReadings == {<<1000, 3000, 5000>>, <<1000, 1000, 1000>>, <<5000, 3000, 1000>>}

InitReq ==
    /\ all_decisions = <<>>
    /\ n_ai_models = 0
    /\ final_trades = <<>>
    /\ mpc = "idle"
    /\ EngineIdle
    /\ request \in [method : RequestMethods, endpoint : RequestEndpoints,
                    params : RequestParams, has_key : BOOLEAN, has_secret : BOOLEAN,
                    outs : [1..max_retries -> AttemptOutcomes], times : ClockReadings]
    /\ reply = <<>>
    /\ rpc = "call"
    /\ wire = <<>>

\* the body a 2xx answer carries when the exchange carried the request out
AcceptedBody == DictBody([status |-> "ACCEPTED"])

Send ==
    /\ rpc = "call"
    /\ reply' = _send_signed_request(request.method, request.has_key, request.has_secret,
                                     request.outs, AcceptedBody)
    /\ wire' = [caller |-> IF request.has_key /\ request.has_secret
                            THEN CopyOfParams(request.params).caller ELSE request.params,
                 sent |-> SentParams(request.method, request.has_key, request.has_secret,
                                     request.params, request.times, request.outs)]
    /\ rpc' = "done"
    /\ UNCHANGED <<request, mvars, evars>>

NextReq == Send

SpecReq == InitReq /\ [][NextReq]_vars


(***************************************************************************)
(* Properties of _send_signed_request.                                     *)
(***************************************************************************)
\* the call has returned, and it was made with both credentials and a method the
\* client can send
SentWithCredentials ==
    /\ rpc = "done"
    /\ request.has_key /\ request.has_secret
    /\ request.method \in SupportedMethods

\* C18: only timeouts and transport failures are retried: every attempt before the
\* last one met a timeout or a failure to connect, so an answer in which the exchange
\* rejects the request (with a 2xx or a non-2xx status) is returned after one attempt.
C18_OnlyTransportFailuresRetried ==
    SentWithCredentials =>
        /\ \A k \in 1..(reply.attempts - 1) : request.outs[k] \in {"timeout", "conn_error"}
        /\ request.outs[1] \in {"rejected", "http_error"} =>
              reply = [resp |-> ExchangeRejection, attempts |-> 1]

\* C19: when the API key or the API secret is not configured, the call returns the
\* MissingCredentials error with zero HTTP attempts, for every method, endpoint and
\* parameter set (and whatever the attempts would have met).
C19_MissingCredentialsFailFast ==
    (rpc = "done" /\ (~request.has_key \/ ~request.has_secret)) =>
        reply = [resp |-> DictBody([code |-> -1, msg |-> "MISSING_API_CREDENTIALS"]),
                 attempts |-> 0]

\* a DELETE with the key but without the secret returned MissingCredentials, although
\* its first attempt would have been answered
C19_Witness ==
    /\ rpc = "done"
    /\ request.has_key /\ ~request.has_secret
    /\ request.method = "DELETE"
    /\ request.outs[1] = "ok"
    /\ reply.attempts = 0
    /\ reply.resp = MissingCredentials


(***************************************************************************)
(* The rule lookups followed on their own: _get_symbol_info called again   *)
(* and again on one executor, for either of two symbols, the exchange      *)
(* answering each request in any way.  calls is the log of all requests.   *)
(***************************************************************************)
LookupSymbols == {"BTCUSDT", "ETHUSDT"}

\* rules in which one filter has no filterType
MalformedRules(symbol) ==
    [ExchangeRules(symbol, Rat(1, 1000)) EXCEPT !.filters = Append(@, [tickSize |-> Rat(1, 10)])]

\* what the exchange may answer: the rules (which it may change between two requests),
\* an empty list, malformed rules, or nothing (an exception)
LookupAnswers(symbol) ==
    {[status |-> "ok", symbols |-> <<ExchangeRules(symbol, step)>>] :
        step \in {Rat(1, 1000), Rat(1, 100)}}
    \cup {[status |-> "ok", symbols |-> <<>>],
          [status |-> "ok", symbols |-> <<MalformedRules(symbol)>>],
          [status |-> "fail", symbols |-> <<>>]}

InitInfo ==
    /\ all_decisions = <<>>
    /\ n_ai_models = 0
    /\ final_trades = <<>>
    /\ mpc = "idle"
    /\ EngineIdle
    /\ RequestIdle

Lookup ==
    /\ \E symbol \in LookupSymbols :
       \E answer \in LookupAnswers(symbol) :
       \E g \in {_get_symbol_info([symbol_info_cache |-> symbol_info_cache, calls |-> calls],
                                  symbol, answer)} :
          /\ Len(g.st.calls) <= MaxLookups
          /\ request' = [symbol |-> symbol, answer |-> answer]
          /\ reply' = g.ret
          /\ rpc' = "looked_up"
          /\ symbol_info_cache' = g.st.symbol_info_cache
          /\ calls' = g.st.calls
    /\ UNCHANGED <<active_positions, results, last_trade, todo, epc, handled, stop_orders,
                   next_order_id, has_credentials, wire, mvars>>

NextInfo == Lookup

SpecInfo == InitInfo /\ [][NextInfo]_vars

\* C20: in any sequence of rule lookups, a lookup that succeeds leaves its value in the
\* cache and no entry of the cache is ever removed or replaced; a lookup for a cached
\* symbol returns the cached value and sends no request; a lookup that fails (an
\* exception, or an empty symbols list) leaves the cache as it was, so without an entry
\* for the symbol, and a lookup for a symbol that has no entry sends a request.
C20_RuleCache ==
    [][LET symbol == request'.symbol
       IN  /\ reply' # None =>
                /\ symbol \in DOMAIN symbol_info_cache'
                /\ symbol_info_cache'[symbol] = reply'
           /\ \A s \in DOMAIN symbol_info_cache :
                /\ s \in DOMAIN symbol_info_cache'
                /\ symbol_info_cache'[s] = symbol_info_cache[s]
           /\ symbol \in DOMAIN symbol_info_cache =>
                /\ reply' = symbol_info_cache[symbol]
                /\ calls' = calls
           /\ reply' = None =>
                /\ symbol_info_cache' = symbol_info_cache
                /\ symbol \notin DOMAIN symbol_info_cache'
           /\ symbol \notin DOMAIN symbol_info_cache =>
                /\ Len(calls') = Len(calls) + 1
                /\ calls'[Len(calls')].call = "exchangeInfo"
                /\ calls'[Len(calls')].symbol = symbol
                /\ request'.answer.status = "fail" => reply' = None
                /\ request'.answer.symbols = <<>> => reply' = None
      ]_vars

\* a lookup for BTCUSDT failed on an exception, the next one failed on an empty list,
\* the third reached the exchange and succeeded; the exchange has changed the rules
\* since, and a later lookup has returned the rules first fetched without a request
C20_Witness ==
    /\ Len(calls) = 3
    /\ \A i \in 1..3 : calls[i].symbol = "BTCUSDT"
    /\ calls[1].outs = <<"fail">>
    /\ calls[2].outs = <<"ok">>
    /\ calls[3].outs = <<"ok">>
    /\ request = [symbol |-> "BTCUSDT",
                  answer |-> [status |-> "ok",
                              symbols |-> <<ExchangeRules("BTCUSDT", Rat(1, 100))>>]]
    /\ reply # None
    /\ reply["filters_map"]["LOT_SIZE"].stepSize = Rat(1, 1000)
    /\ symbol_info_cache = [s \in {"BTCUSDT"} |-> reply]


(***************************************************************************)
(* _normalize_quantity followed on its own: a raw quantity, a price, an    *)
(* order type and a cached ruleset are drawn, the quantity is normalized,  *)
(* and the result is normalized once more.                                 *)
(***************************************************************************)
\* a cached ruleset: the filter of limit orders, the filter of market orders when the
\* exchange defines one (market_lot is <<>> otherwise), the least notional, the precision
Rules(lot, market_lot, notional, precision) ==
    [symbol |-> "BTCUSDT", quantityPrecision |-> precision,
     filters_map |->
        IF market_lot = <<>>
        THEN [LOT_SIZE |-> lot, MIN_NOTIONAL |-> [notional |-> notional]]
        ELSE [LOT_SIZE |-> lot, MARKET_LOT_SIZE |-> market_lot,
              MIN_NOTIONAL |-> [notional |-> notional]]]

Lot(step, min_qty) == [minQty |-> min_qty, stepSize |-> step]

RuleSets ==
    {Rules(Lot(Rat(1, 10), Rat(1, 10)), <<>>, R(5), 1),
     Rules(Lot(Rat(1, 10), Rat(3, 10)), <<>>, R(5), 1),
     Rules(Lot(Rat(1, 1000), Rat(1, 1000)), <<>>, R(5), 3),
     Rules(Lot(Rat(1, 10), Rat(1, 10)), Lot(Rat(1, 2), Rat(1, 2)), R(5), 1),
     Rules(Lot(Rat(3, 10), Rat(1, 2)), <<>>, R(5), 1),
     Rules(Lot(Rat(1, 2), Rat(1, 2)), <<>>, R(5), 0),
     Rules(Lot(Rat(7, 10), Rat(7, 10)), <<>>, R(5), 0)}

Quantities == {Rat(k, 10) : k \in 0..MaxQtyTenths} \cup {Rat(1, 10000), Rat(43, 1000)}

Prices == {Zero, R(1), R(3), R(10), R(100)}

InitNorm ==
    /\ all_decisions = <<>>
    /\ n_ai_models = 0
    /\ final_trades = <<>>
    /\ mpc = "idle"
    /\ EngineIdle
    /\ request \in [info : RuleSets, qty : Quantities, price : Prices,
                    order_type : {"LIMIT", "MARKET", "market"}]
    /\ reply = <<>>
    /\ rpc = "raw"
    /\ wire = <<>>

Normalize ==
    /\ rpc = "raw"
    /\ reply' = [qty |-> _normalize_quantity(request.info, request.qty, request.price,
                                             request.order_type)]
    /\ rpc' = "normalized"
    /\ UNCHANGED <<request, wire, mvars, evars>>

NormalizeAgain ==
    /\ rpc = "normalized"
    /\ reply' = [qty |-> reply.qty,
                 again |-> _normalize_quantity(request.info, reply.qty, request.price,
                                               request.order_type)]
    /\ rpc' = "renormalized"
    /\ UNCHANGED <<request, wire, mvars, evars>>

NextNorm == Normalize \/ NormalizeAgain

SpecNorm == InitNorm /\ [][NextNorm]_vars

\* the quantity filter that applies to the request: the one of market orders for a
\* market order (in any letter case) when the ruleset has one, the general one otherwise
AppliedLot ==
    LET filters == request.info["filters_map"]
    IN  IF Upper(request.order_type) = "MARKET" /\ "MARKET_LOT_SIZE" \in DOMAIN filters
        THEN filters["MARKET_LOT_SIZE"] ELSE filters["LOT_SIZE"]

MinNotional == request.info["filters_map"]["MIN_NOTIONAL"]["notional"]

\* a is a whole multiple of b
IsMultipleOf(a, b) == \E k \in 0..(a.n * b.d) : a = RMul(R(k), b)

\* the result meets the least quantity, the least notional and the step
MeetsTheRules(q) ==
    /\ RLeq(AppliedLot.minQty, q)
    /\ RLeq(MinNotional, RMul(q, request.price))
    /\ IsMultipleOf(q, AppliedLot.stepSize)

\* the raw quantity has been normalized at a positive price, under a ruleset whose step,
\* least quantity and least notional are positive
NormalizedAtAPrice ==
    /\ rpc \in {"normalized", "renormalized"}
    /\ RLess(Zero, request.price)
    /\ RLess(Zero, AppliedLot.stepSize)
    /\ RLess(Zero, AppliedLot.minQty)
    /\ RLess(Zero, MinNotional)

\* C21: for every raw quantity, every price > 0 and every ruleset with positive step,
\* least quantity and least notional, the normalized quantity is at least the least
\* quantity, its notional is at least the least notional, and it is a multiple of the step.
C21_ResultMeetsTheRules ==
    NormalizedAtAPrice => MeetsTheRules(reply.qty)

\* the least quantity is a multiple of the step, and the step is a multiple of the
\* unit of the quantity precision
Coherent ==
    /\ IsMultipleOf(AppliedLot.minQty, AppliedLot.stepSize)
    /\ IsMultipleOf(AppliedLot.stepSize, Rat(1, Pow10(request.info["quantityPrecision"])))

\* C21 as it holds: the same, for the rulesets in which the least quantity is a multiple
\* of the step and the step is a multiple of the unit of the quantity precision.
C21_ResultMeetsCoherentRules ==
    (NormalizedAtAPrice /\ Coherent) => MeetsTheRules(reply.qty)

\* the raw quantity 0.0001 at price 100 under step 0.001, least quantity 0.001 and least
\* notional 5 was raised to 0.05
C21_Witness ==
    /\ NormalizedAtAPrice /\ Coherent
    /\ request.qty = Rat(1, 10000)
    /\ request.price = R(100)
    /\ AppliedLot = Lot(Rat(1, 1000), Rat(1, 1000))
    /\ reply.qty = Rat(5, 100)

\* C22: _normalize_quantity is idempotent: for the same ruleset, price and order type,
\* normalizing the result of a normalization returns that same result.  Stated for a
\* positive price and the rulesets in which the least quantity is a multiple of the
\* step and the step a multiple of the unit of the precision.
C22_Idempotent ==
    (rpc = "renormalized" /\ NormalizedAtAPrice /\ Coherent) => reply.again = reply.qty


(***************************************************************************)
(* Further properties of execute_trades (specification Spec).              *)
(***************************************************************************)
\* the decision the step handled was recorded as executed
EndedExecuted(t, details) == details[Len(details)] = DetailOf(t, "success")

\* C23: over any sequence of decisions an entry of the ledger is created only by a
\* successful decision that opens (OPEN, or the code's BP and SP), is never modified or
\* replaced while it exists, not even by a later OPEN on the same symbol, and is removed
\* only by a successful CLOSE.
C23_LedgerLifecycle ==
    [][\A s \in DOMAIN active_positions \cup DOMAIN active_positions' :
         /\ (s \notin DOMAIN active_positions) =>
                /\ Get(last_trade', "action", "UNKNOWN") \in {"OPEN", "BP", "SP"}
                /\ Get(last_trade', "symbol", "UNKNOWN") = s
                /\ EndedExecuted(last_trade', results'.details)
         /\ (s \in DOMAIN active_positions /\ s \in DOMAIN active_positions') =>
                active_positions'[s] = active_positions[s]
         /\ (s \notin DOMAIN active_positions') =>
                /\ Get(last_trade', "action", "UNKNOWN") = "CLOSE"
                /\ Get(last_trade', "symbol", "UNKNOWN") = s
                /\ EndedExecuted(last_trade', results'.details)
      ]_vars


(***************************************************************************)
(* Further properties of _send_signed_request (specification SpecReq).     *)
(***************************************************************************)
\* C24: _send_signed_request never modifies the parameter set passed by the caller, and
\* every attempt sends a fresh copy made of the original parameters, the receive window
\* (5000 when the caller gave none, the caller's value otherwise), the timestamp read at
\* that attempt and a signature computed over exactly those parameters; no attempt's
\* timestamp or signature carries over to a later attempt.
C24_FreshParamsEveryAttempt ==
    rpc = "done" =>
        /\ wire.caller = request.params
        /\ Len(wire.sent) = reply.attempts
        /\ \A i \in 1..Len(wire.sent) :
             LET p == wire.sent[i]
                 unsigned == [k \in DOMAIN p \ {"signature"} |-> p[k]]
             IN  /\ DOMAIN p = DOMAIN request.params \cup {"recvWindow", "timestamp", "signature"}
                 /\ \A k \in DOMAIN request.params : p[k] = request.params[k]
                 /\ "recvWindow" \notin DOMAIN request.params => p["recvWindow"] = 5000
                 /\ p["timestamp"] = request.times[i]
                 /\ p["signature"] = [hmac_sha256 |-> unsigned]

\* a call without recvWindow met two timeouts and was answered at the third attempt; the
\* three requests carry the three clock readings and three different signatures
C24_Witness ==
    /\ rpc = "done"
    /\ request.params = [symbol |-> "BTCUSDT"]
    /\ request.times = <<1000, 3000, 5000>>
    /\ request.outs = <<"timeout", "timeout", "ok">>
    /\ Len(wire.sent) = 3
    /\ wire.sent[3]["timestamp"] = 5000
    /\ wire.sent[3]["recvWindow"] = 5000
    /\ wire.sent[1]["signature"] # wire.sent[3]["signature"]
    /\ wire.caller = [symbol |-> "BTCUSDT"]

\* C25: for every sequence of per-attempt outcomes (success, rejection, timeout,
\* transport error, non-2xx status, other exception) and for an unsupported method,
\* _send_signed_request ends after at most 3 HTTP attempts and returns a value (a dict)
\* instead of raising.
C25_ReturnsWithinThreeAttempts ==
    rpc = "done" =>
        /\ reply.attempts \in 0..3
        /\ Len(wire.sent) <= 3
        /\ reply.resp.type = "dict"

\* three attempts were made, the first refused with a non-2xx status and the others
\* lost on the way, and the call returned a dict
C25_Witness ==
    /\ rpc = "done"
    /\ request.has_key /\ request.has_secret
    /\ request.method = "POST"
    /\ request.outs = <<"http_error", "conn_error", "timeout">>
    /\ reply.attempts = 3
    /\ reply.resp.type = "dict"

\* merge_decisions emits the decision t (here: passes it through from a single source)
EmittedByMerge(t) ==
    merge_decisions(<<[ai_name |-> "A", trades |-> <<t>>]>>, 1) = <<t>>

\* C26: for every OPEN decision that merge_decisions emits, if its normalized direction
\* is LONG the entry market order is sent with side BUY and the protective stop with side
\* SELL, and if its normalized direction is SHORT the entry is SELL and the stop is BUY.
C26_SidesFollowNormalizedDirection ==
    [][LET t == last_trade'
           direction == normalize_trade_action(t)[3]
       IN  (/\ EmittedByMerge(t)
            /\ normalize_trade_action(t)[1] = "OPEN"
            /\ direction \in {"LONG", "SHORT"})
           => \A i \in 1..Len(calls') :
                /\ IsMarketOrder(calls'[i]) =>
                      calls'[i].params.side = IF direction = "LONG" THEN "BUY" ELSE "SELL"
                /\ IsStopPlacement(calls'[i]) =>
                      calls'[i].params.side = IF direction = "LONG" THEN "SELL" ELSE "BUY"
      ]_vars

\* the exchange answered the request with a body that carries no error code
AnsweredWithoutError(e) == e.resp.type = "dict" /\ "code" \notin DOMAIN e.resp.body

\* C27: within one decision a protective STOP_MARKET order is placed only after the entry
\* market order of that same decision has succeeded, which is itself sent only after the
\* leverage call succeeded and the price was found positive; no path places a protective
\* order when the leverage call, the price check or the entry order failed.
C27_StopOnlyAfterEntry ==
    [][\A i \in 1..Len(calls') :
          IsStopPlacement(calls'[i]) =>
             /\ \E j \in 1..(i - 1) :
                   /\ IsMarketOrder(calls'[j])
                   /\ AnsweredWithoutError(calls'[j])
                   /\ \E k \in 1..(j - 1) :
                         IsLeverageCall(calls'[k]) /\ AnsweredWithoutError(calls'[k])
             /\ RLess(Zero, last_trade'["entry_price_target"])
      ]_vars

\* the decision handled last placed its protective order, the entry order before it
C27_Witness ==
    /\ CountCalls(IsStopPlacement) = 1
    /\ \E i, j \in 1..Len(calls) :
          /\ j < i
          /\ IsStopPlacement(calls[i])
          /\ IsMarketOrder(calls[j])
          /\ calls[j].resp = DictBody([status |-> "FILLED"])
    /\ Get(last_trade, "action", "UNKNOWN") = "OPEN"

\* the step handled a decision that reached execute_open_position with the fields it
\* reads: its first call is the rule lookup or the leverage call of set_leverage
ReachedSetLeverage(t) ==
    /\ Get(t, "action", "UNKNOWN") \in {"OPEN", "BP", "SP"}
    /\ ~LowConfidence(t)
    /\ {"symbol", "direction", "leverage", "position_size_percent", "stop_loss"}
          \subseteq DOMAIN t
    /\ IsNumber(t["leverage"])

\* a call signed with the account's key
IsSignedCall(e) == e.call \in {"leverage", "order", "cancel", "openOrders"}

\* C28: when the symbol is unknown to the exchange (the rule lookup of set_leverage gives
\* nothing) or the leverage call is not accepted, the OPEN decision ends Failed with no
\* market order, no protective order and no change of the ledger; for an unknown symbol
\* no signed call is made at all.
C28_NoEntryWithoutLeverage ==
    [][LET t == last_trade'
           unknown == calls' # <<>> /\ calls'[1].call = "exchangeInfo"
                                    /\ calls'[1].outs # <<"ok">>
           refused == \E i \in 1..Len(calls') :
                          IsLeverageCall(calls'[i]) /\ ~AnsweredWithoutError(calls'[i])
       IN  (ReachedSetLeverage(t) /\ (unknown \/ refused)) =>
              /\ results'.details = Append(results.details, DetailOf(t, "failed"))
              /\ results'.failed = results.failed + 1
              /\ \A i \in 1..Len(calls') :
                    ~IsMarketOrder(calls'[i]) /\ ~IsStopPlacement(calls'[i])
              /\ active_positions' = active_positions
              /\ stop_orders' = stop_orders
              /\ unknown => \A i \in 1..Len(calls') : ~IsSignedCall(calls'[i])
      ]_vars

\* two OPEN decisions have failed: for the first the symbol was unknown (no rules were
\* cached), for the second the rules were found and the leverage call was refused three
\* times; no order was sent and the ledger is empty
C28_Witness ==
    /\ Len(results.details) = 2
    /\ results.failed = 2
    /\ Get(last_trade, "action", "UNKNOWN") = "OPEN"
    /\ Len(calls) = 2
    /\ calls[1].call = "exchangeInfo" /\ calls[1].outs = <<"ok">>
    /\ IsLeverageCall(calls[2])
    /\ calls[2].outs = <<"http_error", "http_error", "http_error">>
    /\ active_positions = <<>>
    /\ handled[1] = <<"BTCUSDT", "OPEN">>

\* the actions the dispatch of execute_trades has a branch for
DispatchedActions == {"OPEN", "CLOSE", "HOLD", "BP", "SP"}

\* C29: a decision whose confidence reaches the threshold and whose action is none of
\* OPEN, CLOSE, HOLD, BP, SP (a missing action reads as UNKNOWN) is recorded as failed,
\* and handling it sends nothing to the exchange and changes neither the ledger, the
\* exchange's open orders nor the rule cache.
C29_UnknownActionFails ==
    [][LET t == last_trade'
       IN  (/\ epc = "loop"
            /\ ~BelowThreshold(t)
            /\ Get(t, "action", "UNKNOWN") \notin DispatchedActions) =>
              /\ results'.details = Append(results.details, DetailOf(t, "failed"))
              /\ results'.failed = results.failed + 1
              /\ results'.executed = results.executed
              /\ results'.skipped_low_confidence = results.skipped_low_confidence
              /\ calls' = <<>>
              /\ active_positions' = active_positions
              /\ stop_orders' = stop_orders
              /\ symbol_info_cache' = symbol_info_cache
      ]_vars

\* after a position was opened, a decision with the action "open" (lower case) and
\* confidence 0.6 has been recorded as failed: nothing was sent and the position opened
\* before is still in the ledger
C29_Witness ==
    /\ Len(results.details) = 2
    /\ results.executed = 1
    /\ results.failed = 1
    /\ Get(last_trade, "action", "UNKNOWN") = "open"
    /\ results.details[2].status = "failed"
    /\ calls = <<>>
    /\ "BTCUSDT" \in DOMAIN active_positions

\* the terminal states of a decision, as the status of its record in the summary
TerminalStatuses == {"success", "skipped_low_confidence", "skipped_loss_position", "failed"}

\* the number of records of the summary with the given status
RecordsWith(status) ==
    Cardinality({i \in 1..Len(results.details) : results.details[i].status = status})

\* C30: every decision execute_trades has processed has exactly one record, with one of
\* the four statuses success, skipped_low_confidence, skipped_loss_position, failed, and
\* the counter skipped_low_confidence is the number of records with the status
\* skipped_low_confidence: a decision the loss guard stopped is not counted in it.
C30_CounterCountsLowConfidenceOnly ==
    /\ Len(results.details) = Len(handled)
    /\ \A i \in 1..Len(results.details) : results.details[i].status \in TerminalStatuses
    /\ results.skipped_low_confidence = RecordsWith("skipped_low_confidence")

\* C31: when execute_trades has returned, total is the number of decisions it was given,
\* total = executed + skipped_low_confidence + failed, and details has one record per
\* decision, in the order of the input, carrying the decision's symbol and action.
C31_SummaryAddsUp ==
    epc = "returned" =>
        /\ results.total = Len(handled)
        /\ results.total = results.executed + results.skipped_low_confidence + results.failed
        /\ Len(results.details) = Len(handled)
        /\ \A i \in 1..Len(handled) :
              /\ results.details[i].symbol = handled[i][1]
              /\ results.details[i].action = handled[i][2]
              /\ results.details[i].status \in TerminalStatuses

\* execute_trades has returned from two decisions, an OPEN that was executed and a CLOSE
\* the loss guard stopped: total 2 = 1 executed + 1 skipped + 0 failed, two records
C31_Witness ==
    /\ epc = "returned"
    /\ results.total = 2
    /\ results.executed = 1
    /\ results.skipped_low_confidence = 1
    /\ results.failed = 0
    /\ handled = <<<<"BTCUSDT", "OPEN">>, <<"BTCUSDT", "CLOSE">>>>
    /\ results.details[2].status = "skipped_loss_position"

(***************************************************************************)
(* place_market_order followed on its own, together with the exchange: an  *)
(* attempt's request may have been carried out by the exchange although    *)
(* the client saw a timeout or lost the connection.                        *)
(***************************************************************************)
\* what an attempt of the order request can meet
OrderOutcomes == {"ok", "timeout", "conn_error", "http_error"}

\* landed[i]: the exchange received the request of attempt i and carried it out.  An
\* attempt answered 2xx was carried out, one answered non-2xx was not; for a timeout
\* and a lost connection both are possible
Consistent(outs, landed) ==
    \A i \in 1..max_retries :
        /\ outs[i] = "ok" => landed[i]
        /\ outs[i] = "http_error" => ~landed[i]

\* lines 335-344: the request carries symbol, side, type and quantity and nothing that
\* tells a repeated request from a new one, so the exchange takes every request of the
\* call that reaches it as an order: the attempts made whose request landed
OrdersAccepted(log, landed) ==
    {[attempt |-> i, params |-> log[j].params] :
        <<j, i>> \in {<<j, i>> \in (1..Len(log)) \X (1..max_retries) :
                          /\ log[j].call = "order"
                          /\ i <= Len(log[j].outs)
                          /\ landed[i]}}

InitOrder ==
    /\ all_decisions = <<>>
    /\ n_ai_models = 0
    /\ final_trades = <<>>
    /\ mpc = "idle"
    /\ EngineIdle
    /\ request \in {q \in [symbol : {"BTCUSDT"}, side : {"BUY", "SELL"},
                           quantity : {Rat(1, 20), R(1), Rat(5, 2)},
                           outs : [1..max_retries -> OrderOutcomes],
                           landed : [1..max_retries -> BOOLEAN]] :
                        Consistent(q.outs, q.landed)}
    /\ reply = <<>>
    /\ rpc = "order"
    /\ wire = <<>>

PlaceOrder ==
    /\ rpc = "order"
    /\ \E p \in {place_market_order(EngineState, request.symbol, request.side,
                                     request.quantity, "ok", "ok", request.outs)} :
          /\ reply' = [ret |-> p.ret, accepted |-> OrdersAccepted(p.st.calls, request.landed)]
          /\ calls' = p.st.calls
          /\ symbol_info_cache' = p.st.symbol_info_cache
    /\ rpc' = "placed"
    /\ UNCHANGED <<request, wire, mvars, active_positions, results, last_trade, todo, epc,
                   handled, stop_orders, next_order_id, has_credentials>>

NextOrder == PlaceOrder

SpecOrder == InitOrder /\ [][NextOrder]_vars

\* C32: across the attempts of one place_market_order call the exchange accepts at most
\* one order, also when it carried out a request whose answer timed out or was lost.
C32_AtMostOneOrderAccepted ==
    rpc = "placed" => Cardinality(reply.accepted) <= 1

\* an attempt that ended without a 2xx answer
FailedAttempt(out) == out \in {"timeout", "conn_error", "http_error"}

\* C33: when every attempt of a signed request ended in a timeout, a transport error or
\* a non-2xx status, the value _send_signed_request returns is classified as an error by
\* _is_error_response, so that no caller reports success, and it is not the body of an
\* earlier attempt's answer: after a last attempt that received no answer it is an error
\* value the client built itself.
C33_FailureIsNotAnEarlierBody ==
    (/\ rpc = "done"
     /\ SentWithCredentials
     /\ \A i \in 1..max_retries : FailedAttempt(request.outs[i])) =>
        /\ _is_error_response(reply.resp)
        /\ ~Succeeded(reply.resp)
        /\ request.outs[max_retries] # "http_error" =>
              reply.resp \in {RequestTimeout, NetworkError}

\* the protective order the ledger entry of a symbol names is open on the exchange; an
\* order leaves the exchange's open orders only by a cancel of the engine
StopOfLedgerIsOpen(symbol) ==
    LET position == active_positions[symbol]
    IN  position.stop_order_id # None =>
            \E o \in stop_orders :
                o.symbol = symbol /\ o.orderId = position.stop_order_id.id

\* C34: after any sequence of decisions, every ledger entry with a protective-order id
\* names a protective order the engine has not cancelled, also after a CLOSE whose cancel
\* was carried out and whose closing market order failed.
C34_LedgerNamesLiveStops ==
    \A symbol \in DOMAIN active_positions : StopOfLedgerIsOpen(symbol)

\* an open order the engine placed itself: the one the ledger entry names, or one whose
\* id is above the ids of the orders an earlier run left behind
PlacedByEngine(o, position) ==
    \/ o.orderId > Cardinality(StrayStops)
    \/ position.stop_order_id # None /\ o.orderId = position.stop_order_id.id

\* C35: when a CLOSE decision is recorded as executed, no protective order the engine
\* placed for the symbol is open on the exchange afterwards, whatever the cancel call met
\* and whatever OPEN decisions on the symbol came before.
C35_NoStopAfterClose ==
    [][LET t == last_trade'
           symbol == Get(t, "symbol", "UNKNOWN")
       IN  (/\ ClosesAPosition(t)
            /\ EndedExecuted(t, results'.details)) =>
              \A o \in stop_orders' :
                  o.symbol = symbol => ~PlacedByEngine(o, active_positions[symbol])
      ]_vars

\* the decision handled last took the open path and was recorded as executed
OpenWasExecuted ==
    /\ results.details # <<>>
    /\ Len(results.details) = Len(handled)
    /\ Get(last_trade, "action", "UNKNOWN") \in {"OPEN", "BP", "SP"}
    /\ LastDetail = DetailOf(last_trade, "success")

\* C36: the quantity a successful OPEN writes to the ledger is the quantity of the entry
\* market order that decision sent to the exchange.
C36_LedgerQuantityIsOrderQuantity ==
    OpenWasExecuted =>
        \A i \in 1..Len(calls) :
            IsMarketOrder(calls[i]) =>
                calls[i].params.quantity = active_positions[last_trade["symbol"]].quantity

\* C37: every decision a merge of two or more sources emits has
\* 1 <= ai_consensus <= total_ais, also when a source lists a symbol more than once.
C37_AgreementWithinSources ==
    (mpc = "done" /\ Len(all_decisions) >= 2) =>
        \A k \in 1..Len(final_trades) :
            /\ 1 <= final_trades[k]["ai_consensus"]
            /\ final_trades[k]["ai_consensus"] <= final_trades[k]["total_ais"]

\* C38: a decision as merge_decisions emits it, whose normalized action is OPEN, CLOSE or
\* HOLD and whose confidence reaches the threshold, is handled by the open, the close or
\* the hold branch of execute_trades respectively (a CLOSE at a loss by the loss guard),
\* whatever letter case its action is written in; never by the unknown-action branch.
C38_NormalizedActionsAreDispatched ==
    [][LET t == last_trade'
           action == normalize_trade_action(t)[1]
       IN  (/\ epc = "loop"
            /\ EmittedByMerge(t)
            /\ ~BelowThreshold(t)
            /\ action \in {"OPEN", "CLOSE", "HOLD"}) =>
              /\ action = "OPEN" => Open(t)
              /\ action = "CLOSE" => (Close(t) \/ SkipLossPosition(t))
              /\ action = "HOLD" => Hold(t)
              /\ ~UnknownAction(t)
      ]_vars

=============================================================================
